---- MODULE Spec2Model ----
(***************************************************************************)
(* free-v2ray: the concurrent latency-validation engine (probe and         *)
(* orchestrator, in its three implementations main.py, tester.Tester and   *)
(* tester.AsyncTester), the cascading node decoder (extract_nodes), the    *)
(* uri codec (node_to_v2ray_uri, parse_v2ray_uri) and the pipeline of      *)
(* main(): gather, deduplicate, validate, save.                            *)
(***************************************************************************)
EXTENDS Integers, Sequences, FiniteSets, TLC

\* ------------------------------------------------------------------ bounds
NumNodes == 2
MaxWorkers == 2
NumPorts == 2
MaxItems == 2
MaxGathered == 3

\* ------------------------------------------------------- program constants
MaxLatencyMs == 1000
NumTestUrls == 1

\* the longest TEST_URLS list the request loop is run on by itself
MaxUrls == 3

\* subscription links fetched in one call
NumSubs == 4

\* the largest os.cpu_count() considered
MaxCpus == 2

\* asyncio.Semaphore(50) of AsyncSubscriber
SemaphoreSize == 50

\* retries of a wrapped function is 0..MaxRetries
MaxRetries == 3

\* failed binds of one find_available_port call are counted up to MaxAttempts
MaxAttempts == 3

\* a ProcessManager is followed until it has spawned MaxSpawns children
MaxSpawns == 4

\* a request takes 0..MaxRequestTime seconds
MaxRequestTime == 2

\* time.sleep(3) after Popen in _test_node_latency
ReadinessSleep == 3

\* find_available_port(start=10000, end=60000)
PortStart == 10000
PortEnd == 60000

\* seconds to milliseconds: int((now - start) * 1000)
MsPerSecond == 1000

VARIABLES
    impl,           \* which implementation runs: "main", "tester", "async"
    k,              \* max_workers of this run
    coreInstalled,  \* CORE_PATH / xray_install_path is set
    inputs,         \* inputs[i]: node i as it was submitted
    nodes,          \* nodes[i]: the node dict, mutated in place by the probe
    pc,             \* pc[i]: position of probe i
    tempDir,        \* tempDir[i]: the probe's temp directory exists
    port,           \* port[i]: local_port of probe i (0: none)
    proc,           \* proc[i]: the core process of probe i
    urlIdx,         \* urlIdx[i]: index into TEST_URLS
    lat,            \* lat[i]: <<>> or <<L>>, what _measure_latency returned
    outcome,        \* outcome[i]: "none", "accepted", "invalid", "raised"
    failure,        \* failure[i]: which exit path the probe took
    valid,          \* valid_nodes, as indices into nodes
    doneCount,      \* done / idx of the thread-pool collector
    progress,       \* the progress log lines emitted so far
    orch,           \* orchestrator: "running", "returned", "raised"
    loop,           \* the task holding the asyncio event loop (0: idle)
    collided,       \* collided[i]: the core of probe i found its port taken
    steps,          \* steps[i]: the steps probe i has performed, in order
    allocs,         \* allocs[i]: calls of find_available_port by probe i
    probed,         \* probed[i]: invocations of process_node on node i
    content,        \* the subscription text given to extract_nodes
    exPc,           \* position inside extract_nodes
    exNodes,        \* its local list `nodes`
    exTried,        \* its local list `methods_tried`
    exRan,          \* the strategy blocks it has executed, in order
    exResult,       \* what it returned
    cNode,          \* the node given to node_to_v2ray_uri
    cUri,           \* the value given to parse_v2ray_uri
    cOut,           \* what parse_v2ray_uri returned
    cPc,            \* position of the codec run
    pList,          \* all_nodes as gathered from the subscriptions
    pUnique,        \* unique_nodes, what deduplicate_v2ray_nodes returned
    pTwice,         \* deduplicate_v2ray_nodes applied to unique_nodes
    pProbed,        \* the nodes process_node handed to _test_node_latency
    pValid,         \* valid_nodes
    pUris,          \* the uris save_results wrote
    pFiles,         \* the files under Settings.V2RAY_DIR, with what each holds
    pPc,            \* position of main()
    caller,         \* who launched the core process of this session
    numUrls,        \* len(TEST_URLS)
    coreProc,       \* the launched process: "running" or "exited"
    sessPc,         \* position of the code that uses and stops the process
    urlPos,         \* 1-based position of the loop over TEST_URLS
    requested,      \* the GETs issued so far, with what each ended in
    measured,       \* <<>> or <<L>>: what the request loop returned
    signals,        \* the signals sent to the process, in order
    jItem,          \* the element handed to parse_single_json_node
    jOut,           \* what parse_single_json_node returned
    jPc,            \* "idle", "call", "done", "raised"
    gImpl,          \* whose generate_v2ray_config is called: "main" or "tester"
    gNode,          \* the node it is called on
    gOut,           \* the outbound of the config it returned
    gPc,            \* "idle", "call", "done"
    tCaller,        \* whose probe is timed: "main", "tester", "async"
    tUrls,          \* len(TEST_URLS)
    tPc,            \* "idle", "launched", "start", "request", "returned"
    tNow,           \* the time, in seconds since the core was launched
    tStart,         \* <<>> or <<t>>: the reading of the clock taken as start
    tUrl,           \* index of the URL requested next
    tLat,           \* <<>> or <<L>>: what the probe returned
    rImpl,          \* the wrapper called: "retry" or "retry_async"
    rRetries,       \* retries
    rAttempt,       \* attempt of `for attempt in range(1, retries + 1)`
    rLog,           \* how each invocation of the wrapped function ended
    rSleeps,        \* how many times the wrapper has waited `delay`
    rLastExc,       \* last_exc: <<>> or <<a>>, the exception of attempt a
    rOut,           \* what the wrapper call ended with
    rPc,            \* "idle", "enter", "call", "sleep", "ended"
    aImpl,          \* whose find_available_port runs: "main" or "tester"
    aBusy,          \* the ports on which a bind fails at the moment
    aPc,            \* "idle", "loop", "returned", "raised"
    aPort,          \* 0, or the port the allocator's socket was bound to
    aSock,          \* the allocator's socket: "none", "closed" (never left open)
    aAttempts,      \* failed binds so far, counted up to MaxAttempts
    mRunning,       \* self.running
    mProc,          \* self.process: 0 (None) or the child Popen returned
    mLive,          \* the children of this manager that are alive
    mSpawned,       \* how many children the manager has spawned
    mLast,          \* the last call on the manager and what it did
    fetcher,        \* which function fetches the subscriptions
    cpus,           \* os.cpu_count()
    subPc,          \* subPc[s]: position of the fetch of link s
    subKind,        \* subKind[s]: how the fetch of link s ended
    subFound,       \* subFound[s]: nodes extract_nodes found in its text
    allNodes,       \* all_nodes: the aggregated list
    fetchOrch       \* the fetching function: "running", "returned", "raised"

probeVars == <<impl, k, coreInstalled, inputs, nodes, pc, tempDir, port, proc,
               urlIdx, lat, outcome, failure, valid, doneCount, progress, orch,
               loop, collided, steps, allocs, probed>>

extractVars == <<content, exPc, exNodes, exTried, exRan, exResult>>

codecVars == <<cNode, cUri, cOut, cPc>>

pipeVars == <<pList, pUnique, pTwice, pProbed, pValid, pUris, pFiles, pPc>>

sessionVars == <<caller, numUrls, coreProc, sessPc, urlPos, requested,
                 measured, signals>>

fetchVars == <<fetcher, cpus, subPc, subKind, subFound, allNodes, fetchOrch>>

jsonVars == <<jItem, jOut, jPc>>

configVars == <<gImpl, gNode, gOut, gPc>>

clockVars == <<tCaller, tUrls, tPc, tNow, tStart, tUrl, tLat>>

retryVars == <<rImpl, rRetries, rAttempt, rLog, rSleeps, rLastExc, rOut, rPc>>

allocVars == <<aImpl, aBusy, aPc, aPort, aSock, aAttempts>>

managerVars == <<mRunning, mProc, mLive, mSpawned, mLast>>

vars == <<managerVars, allocVars, retryVars, clockVars, configVars, jsonVars, probeVars, extractVars, codecVars, pipeVars, sessionVars, fetchVars>>

Subs == 1..NumSubs

Probes == 1..NumNodes
Ports == 1..NumPorts
Impls == {"main", "tester", "async"}

\* kinds generate_v2ray_config has a builder for
BuilderKinds == {"vmess", "trojan", "vless", "ss", "socks", "http", "https"}

NoNode == [kind |-> "none", name |-> <<>>, server |-> "", cred |-> FALSE,
           latency |-> <<>>]

\* the nodes a run is fed with: a complete vmess node, a vmess node without
\* its uuid (the builder raises KeyError), a node of a kind without builder,
\* a node without the key 'name' (name = <<>>) and a node without the key
\* 'server' (server = "")
NodeInputs ==
    { [kind |-> "vmess", name |-> <<"n">>, server |-> "s", cred |-> TRUE,
       latency |-> <<>>],
      [kind |-> "vmess", name |-> <<"n">>, server |-> "s", cred |-> FALSE,
       latency |-> <<>>],
      [kind |-> "ssr", name |-> <<"n">>, server |-> "s", cred |-> TRUE,
       latency |-> <<>>],
      [kind |-> "vmess", name |-> <<>>, server |-> "s", cred |-> TRUE,
       latency |-> <<>>],
      [kind |-> "vmess", name |-> <<"n">>, server |-> "", cred |-> TRUE,
       latency |-> <<>>] }

\* int((now - start) * 1000) of a successful request
LatencySamples == {0, MaxLatencyMs, MaxLatencyMs + 1}

\* --------------------------------------------------- subscription contents
\* A subscription text is described by what each extraction strategy finds
\* in it. An item is 1 when parse_v2ray_uri (or parse_single_json_node)
\* returns a node for it and 0 when it returns None.
ItemSeqs == UNION {[1..m -> {0, 1}] : m \in 0..MaxItems}

\* Base64: `ok` when the cleaned text decodes and the decoded text contains
\* a protocol prefix; `lines` are its lines that start with a prefix.
B64Outcomes ==
    {[ok |-> FALSE, lines |-> <<>>]} \cup
    {[ok |-> TRUE, lines |-> l] : l \in ItemSeqs}

\* YAML: parse_clash_yaml on the whole text returns a list of `n` entries,
\* or a value nodes.extend() raises on ("raise"), or yaml.safe_load fails on
\* the text ("parseError"). `frag` is what the text's `proxies:` block gives
\* when it is searched ("nomatch" when absent) and parsed alone.
YamlOutcomes ==
    {[whole |-> "list", n |-> a, frag |-> "nomatch", m |-> 0] :
        a \in 0..MaxItems}
    \cup {[whole |-> w, n |-> 0, frag |-> f, m |-> 0] :
            w \in {"raise", "parseError"}, f \in {"nomatch", "raise"}}
    \cup {[whole |-> w, n |-> 0, frag |-> "list", m |-> b] :
            w \in {"raise", "parseError"}, b \in 0..MaxItems}

NoYaml == [whole |-> "list", n |-> 0, frag |-> "nomatch", m |-> 0]

\* JSON: json.loads of the whole cleaned text succeeds ("ok", with the items
\* of the document), raises JSONDecodeError ("decodeError", then the
\* bracketed fragments are tried: "bad" fails to load or to parse, "empty"
\* holds no node, "nodes" holds one), or parse_json_nodes raises
\* ("otherError").
\* In a JSON array an item can also be 2: parse_single_json_node raises on
\* it (a non-string `type` beside server, port and password).
JsonItemSeqs == UNION {[1..m -> {0, 1, 2}] : m \in 0..MaxItems}

FragSeqs == UNION {[1..m -> {"bad", "empty", "nodes"}] : m \in 0..MaxItems}

JsonOutcomes ==
    {[whole |-> "ok", items |-> l, frags |-> <<>>] : l \in JsonItemSeqs}
    \cup {[whole |-> "otherError", items |-> <<>>, frags |-> <<>>]}
    \cup {[whole |-> "decodeError", items |-> <<>>, frags |-> f] :
            f \in FragSeqs}

\* the empty text
NoContent == [empty |-> TRUE, b64 |-> [ok |-> FALSE, lines |-> <<>>],
              yamlInd |-> FALSE, yaml |-> NoYaml, regex |-> <<>>,
              json |-> [whole |-> "otherError", items |-> <<>>,
                        frags |-> <<>>]]

\* c is a subscription text; yamlInd: it contains one of the yaml_indicators
IsContent(c) ==
    \/ c = NoContent
    \/ \E b \in B64Outcomes, yi \in BOOLEAN, r \in ItemSeqs, j \in JsonOutcomes :
        \E y \in (IF yi THEN YamlOutcomes ELSE {NoYaml}) :
            c = [empty |-> FALSE, b64 |-> b, yamlInd |-> yi, yaml |-> y,
                 regex |-> r, json |-> j]

\* ------------------------------------------------------------ pure helpers

\* The fault of a precheck that looks at the name only.
MainPrecheckFails_NameOnly(n) == n.name = <<>>

\* main.process_node: `not node or 'name' not in node or 'server' not in node`
MainPrecheckFails(n) == n.name = <<>> \/ n.server = ""

\* Tester._process_node: `not node.get('name') or not node.get('server')`
TesterPrecheckFails(n) == n.name = <<>> \/ n.server = ""

PrecheckFails(n) ==
    IF impl = "main" THEN MainPrecheckFails(n) ELSE TesterPrecheckFails(n)

\* The fault the stale comment in process_node describes: 0 ms filtered out.
MainAccepts_ZeroRejected(L) == ~(L <= 0 \/ L > MaxLatencyMs)

\* The fault of a filter without its lower bound: the -1 sentinel passes.
MainAccepts_SentinelAccepted(L) == ~(L > MaxLatencyMs)

\* main.process_node rejects when `latency < 0 or latency > 1000`
MainAccepts(L) == ~(L < 0 \/ L > MaxLatencyMs)

\* Tester._process_node accepts when `0 <= latency <= 1000`
TesterAccepts(L) == 0 <= L /\ L <= MaxLatencyMs

Accepts(L) == IF impl = "main" THEN MainAccepts(L) ELSE TesterAccepts(L)

\* main.process_node: node['name'] = f"{node['name']} [{latency}ms]"
MainAnnotate(n, L) == [n EXCEPT !.name = Append(@, L)]

\* Tester._process_node: node['latency'] = latency, then the name
TesterAnnotate(n, L) == [n EXCEPT !.latency = <<L>>, !.name = Append(@, L)]

Annotate(n, L) ==
    IF impl = "main" THEN MainAnnotate(n, L) ELSE TesterAnnotate(n, L)

\* sock.bind(('127.0.0.1', port)) succeeds: no core process listens on p
Bindable(p) == ~\E j \in Probes : proc[j] = "listening" /\ port[j] = p

\* random.randint(start, end): port numbers are interchangeable, so among the
\* ports no probe holds at the moment the lowest one stands for all of them
Canonical(p) ==
    \/ \E j \in Probes : port[j] = p
    \/ \A q \in Ports : q < p => \E j \in Probes : port[j] = q

\* positions at which a pool worker (or a semaphore slot) is occupied
RunningPcs == {"alloc", "build", "launch", "bootpoll", "poll", "http",
               "term"}

Active == {i \in Probes : pc[i] \in RunningPcs}

\* The fault of a pool without limit: every submitted node starts at once.
WorkerFree_Unbounded == TRUE

\* ThreadPoolExecutor(max_workers) / asyncio.Semaphore(max_workers)
WorkerFree == Cardinality(Active) < k

\* the coroutine of task i may run: the event loop is idle or already its own
OnLoop(i) == impl = "async" => loop \in {0, i}

\* after a step of task i: it keeps the loop unless it reached an await
Hold(i, nextpc) ==
    IF impl = "async" /\ nextpc \in {"alloc", "build", "term"}
    THEN i ELSE 0

\* The fault of returning at the first completed future.
AllCollected_FirstCompleted == \E i \in Probes : pc[i] = "collected"

\* the as_completed loop is exhausted / asyncio.gather has returned
AllCollected == \A i \in Probes : pc[i] = "collected"

\* what a GET through socks5://127.0.0.1:<port> can end with
HttpResponses(i) ==
    IF \E j \in Probes : proc[j] = "listening" /\ port[j] = port[i]
    THEN {"ok", "status", "error"}
    ELSE {"error"}

\* ------------------------------------------------------------------- Init
\* no node has been submitted yet
ProbeInit ==
    /\ inputs = [i \in Probes |-> NoNode]
    /\ nodes = [i \in Probes |-> NoNode]
    /\ pc = [i \in Probes |-> "queued"]
    /\ tempDir = [i \in Probes |-> FALSE]
    /\ port = [i \in Probes |-> 0]
    /\ proc = [i \in Probes |-> "none"]
    /\ urlIdx = [i \in Probes |-> 0]
    /\ lat = [i \in Probes |-> <<>>]
    /\ outcome = [i \in Probes |-> "none"]
    /\ failure = [i \in Probes |-> "none"]
    /\ valid = <<>>
    /\ doneCount = 0
    /\ progress = <<>>
    /\ orch = "running"
    /\ loop = 0
    /\ collided = [i \in Probes |-> FALSE]
    /\ steps = [i \in Probes |-> <<>>]
    /\ allocs = [i \in Probes |-> 0]
    /\ probed = [i \in Probes |-> 0]

\* extract_nodes has not been called
ExtractIdle ==
    /\ content = NoContent
    /\ exPc = "idle"
    /\ exNodes = <<>>
    /\ exTried = <<>>
    /\ exRan = <<>>
    /\ exResult = <<>>

\* no dict: the value of a node variable that holds nothing yet
NoRecord == [type |-> "absent"]

\* what parse_v2ray_uri has returned before it was called
Pending == [tag |-> "pending", node |-> NoRecord]

\* neither node_to_v2ray_uri nor parse_v2ray_uri has been called
CodecIdle ==
    /\ cNode = NoRecord
    /\ cUri = [str |-> FALSE, text |-> <<>>]
    /\ cOut = Pending
    /\ cPc = "idle"

\* main() has not gathered anything
PipeIdle ==
    /\ pList = <<>>
    /\ pUnique = <<>>
    /\ pTwice = <<>>
    /\ pProbed = <<>>
    /\ pValid = <<>>
    /\ pUris = <<>>
    /\ pFiles = {}
    /\ pPc = "idle"

\* no process has been launched
SessionIdle ==
    /\ caller = "none"
    /\ numUrls = 0
    /\ coreProc = "none"
    /\ sessPc = "idle"
    /\ urlPos = 0
    /\ requested = <<>>
    /\ measured = <<>>
    /\ signals = <<>>

\* no subscription has been submitted for fetching
FetchIdle ==
    /\ fetcher = "none"
    /\ cpus = 0
    /\ subPc = [s \in Subs |-> "idle"]
    /\ subKind = [s \in Subs |-> "none"]
    /\ subFound = [s \in Subs |-> 0]
    /\ allNodes = <<>>
    /\ fetchOrch = "idle"

\* parse_single_json_node has not been called
JsonIdle ==
    /\ jItem = NoRecord
    /\ jOut = Pending
    /\ jPc = "idle"

\* generate_v2ray_config has not been called
ConfigIdle ==
    /\ gImpl = "none"
    /\ gNode = NoRecord
    /\ gOut = [tag |-> "pending"]
    /\ gPc = "idle"

\* no probe is being timed
ClockIdle ==
    /\ tCaller = "none"
    /\ tUrls = 0
    /\ tPc = "idle"
    /\ tNow = 0
    /\ tStart = <<>>
    /\ tUrl = 0
    /\ tLat = <<>>

\* no wrapped function has been called
RetryIdle ==
    /\ rImpl = "none"
    /\ rRetries = 0
    /\ rAttempt = 0
    /\ rLog = <<>>
    /\ rSleeps = 0
    /\ rLastExc = <<>>
    /\ rOut = [tag |-> "pending"]
    /\ rPc = "idle"

\* find_available_port has not been called
AllocIdle ==
    /\ aImpl = "none"
    /\ aBusy = {}
    /\ aPc = "idle"
    /\ aPort = 0
    /\ aSock = "none"
    /\ aAttempts = 0

\* no ProcessManager has been constructed
ManagerIdle ==
    /\ mRunning = FALSE
    /\ mProc = 0
    /\ mLive = {}
    /\ mSpawned = 0
    /\ mLast = [op |-> "idle"]

\* a validation run is about to start on NumNodes gathered nodes
Init ==
    /\ impl \in Impls
    /\ k \in 1..MaxWorkers
    /\ coreInstalled \in BOOLEAN
    /\ ProbeInit
    /\ SessionIdle
    /\ FetchIdle
    /\ ManagerIdle
    /\ AllocIdle
    /\ RetryIdle
    /\ ClockIdle
    /\ ConfigIdle
    /\ JsonIdle
    /\ ExtractIdle
    /\ CodecIdle
    /\ PipeIdle

\* ---------------------------------------------------------------- actions

\* The tail of process_node once the latency is known (or the probe raised):
\* accept or reject, annotate the node, complete the future. In AsyncTester
\* sem_task collects the result in the same run of the coroutine.
Finish(i, n, L, raised, why) ==
    LET ok == ~raised /\ L # <<>> /\ Accepts(L[1])
        res == IF raised THEN "raised" ELSE IF ok THEN "accepted" ELSE "invalid"
    IN  /\ lat' = [lat EXCEPT ![i] = L]
        /\ outcome' = [outcome EXCEPT ![i] = res]
        /\ failure' = [failure EXCEPT ![i] = IF ok THEN "none" ELSE why]
        /\ nodes' = [nodes EXCEPT ![i] = IF ok THEN Annotate(n, L[1]) ELSE n]
        /\ port' = [port EXCEPT ![i] = 0]
        /\ urlIdx' = [urlIdx EXCEPT ![i] = 0]
        /\ loop' = 0
        /\ IF impl = "async"
           THEN /\ pc' = [pc EXCEPT ![i] = "collected"]
                /\ valid' = IF ok THEN Append(valid, i) ELSE valid
                /\ progress' = Append(progress,
                                      [idx |-> i, status |-> res, node |-> i])
           ELSE /\ pc' = [pc EXCEPT ![i] = "done"]
                /\ UNCHANGED <<valid, progress>>

\* A worker takes the next submitted node and runs process_node up to mkdtemp.
Start(i) ==
    /\ pc[i] = "queued"
    /\ \A j \in Probes : j < i => pc[j] # "queued"
    /\ WorkerFree
    /\ OnLoop(i)
    /\ probed' = [probed EXCEPT ![i] = @ + 1]
    /\ \E n \in NodeInputs :
        /\ inputs' = [inputs EXCEPT ![i] = n]
        /\ IF PrecheckFails(n)
           THEN /\ Finish(i, n, <<>>, FALSE, "precheck")
                /\ UNCHANGED tempDir
           ELSE IF impl = "main" /\ ~coreInstalled
           THEN /\ Finish(i, n, <<-1>>, FALSE, "nocore")
                /\ UNCHANGED tempDir
           ELSE /\ tempDir' = [tempDir EXCEPT ![i] = TRUE]
                /\ nodes' = [nodes EXCEPT ![i] = n]
                /\ pc' = [pc EXCEPT ![i] = "alloc"]
                /\ loop' = Hold(i, "alloc")
                /\ UNCHANGED <<port, urlIdx, lat, outcome, failure, valid,
                               progress>>
    /\ UNCHANGED <<managerVars, allocVars, retryVars, clockVars, configVars, jsonVars, fetchVars, sessionVars, extractVars, codecVars, pipeVars, impl, k, coreInstalled, proc, doneCount, orch, collided,
                   steps, allocs>>

\* find_available_port: bind a random port, release it, return it. A bind
\* that fails is retried, so the call returns a port that was bindable.
AllocPort(i) ==
    /\ pc[i] = "alloc"
    /\ OnLoop(i)
    /\ \E p \in Ports :
        /\ Bindable(p)
        /\ Canonical(p)
        /\ port' = [port EXCEPT ![i] = p]
    /\ allocs' = [allocs EXCEPT ![i] = @ + 1]
    /\ steps' = [steps EXCEPT ![i] = Append(@, "port")]
    /\ pc' = [pc EXCEPT ![i] = "build"]
    /\ loop' = Hold(i, "build")
    /\ UNCHANGED <<managerVars, allocVars, retryVars, clockVars, configVars, jsonVars, fetchVars, sessionVars, extractVars, codecVars, pipeVars, impl, k, coreInstalled, inputs, nodes, tempDir, proc,
                   urlIdx, lat, outcome, failure, valid, doneCount, progress,
                   orch, collided, probed>>

\* generate_v2ray_config, then the config file is written.
BuildConfig(i) ==
    /\ pc[i] = "build"
    /\ OnLoop(i)
    /\ IF nodes[i].kind \notin BuilderKinds
       THEN \* config is None: main removes the directory and returns -1,
            \* Tester returns -1, AsyncTester returns -1 through its finally
            /\ tempDir' = [tempDir EXCEPT ![i] = (impl = "tester")]
            /\ steps' = [steps EXCEPT ![i] =
                            IF impl = "tester" THEN @ ELSE Append(@, "cleanup")]
            /\ Finish(i, nodes[i], <<-1>>, FALSE, "unsupported")
       ELSE \E writeFails \in BOOLEAN :
            IF ~nodes[i].cred \/ writeFails
            THEN \* the builder raises KeyError, or the write raises OSError:
                 \* only AsyncTester has its finally around these lines
                 /\ tempDir' = [tempDir EXCEPT ![i] = (impl # "async")]
                 /\ steps' = [steps EXCEPT ![i] =
                            IF impl = "async" THEN Append(@, "cleanup") ELSE @]
                 /\ Finish(i, nodes[i], <<>>, TRUE, "config")
            ELSE /\ steps' = [steps EXCEPT ![i] = Append(@, "write")]
                 /\ pc' = [pc EXCEPT ![i] = "launch"]
                 /\ loop' = Hold(i, "launch")
                 /\ UNCHANGED <<nodes, tempDir, port, urlIdx, lat, outcome,
                                failure, valid, progress>>
    /\ UNCHANGED <<managerVars, allocVars, retryVars, clockVars, configVars, jsonVars, fetchVars, sessionVars, extractVars, codecVars, pipeVars, impl, k, coreInstalled, inputs, proc, doneCount, orch,
                   collided, allocs, probed>>

\* The fault of a missing `await`: the task goes on to the request although
\* bootstrap_xray has not run.
Launch_NotAwaited(i) ==
    /\ pc[i] = "launch"
    /\ pc' = [pc EXCEPT ![i] = "http"]
    /\ urlIdx' = [urlIdx EXCEPT ![i] = 1]
    /\ UNCHANGED <<managerVars, allocVars, retryVars, clockVars, configVars, jsonVars, fetchVars, sessionVars, extractVars, codecVars, pipeVars, impl, k, coreInstalled, inputs, nodes, tempDir, port, proc,
                   lat, outcome, failure, valid, doneCount, progress, orch,
                   loop, collided, steps, allocs, probed>>

\* subprocess.Popen([core, "-c", config_file]): in main inside the try of
\* _test_node_latency, in Tester and AsyncTester inside bootstrap_xray
\* (which raises RuntimeError first when no core is installed).
Launch(i) ==
    /\ pc[i] = "launch"
    /\ \E popenFails \in BOOLEAN :
        IF popenFails \/ (impl # "main" /\ ~coreInstalled)
        THEN /\ OnLoop(i)
             /\ steps' = [steps EXCEPT ![i] =
                    IF impl = "tester" THEN Append(@, "launch")
                    ELSE Append(Append(@, "launch"), "cleanup")]
             /\ tempDir' = [tempDir EXCEPT ![i] = (impl = "tester")]
             /\ IF impl = "main"
                THEN Finish(i, nodes[i], <<-1>>, FALSE, "launch")
                ELSE Finish(i, nodes[i], <<>>, TRUE, "launch")
             /\ UNCHANGED proc
        ELSE /\ proc' = [proc EXCEPT ![i] = "spawned"]
             /\ steps' = [steps EXCEPT ![i] = Append(@, "launch")]
             /\ pc' = [pc EXCEPT ![i] = IF impl = "main" THEN "http"
                                        ELSE "bootpoll"]
             /\ urlIdx' = [urlIdx EXCEPT ![i] = IF impl = "main" THEN 1 ELSE 0]
             /\ UNCHANGED <<nodes, tempDir, port, lat, outcome, failure, valid,
                            progress, loop>>
    /\ UNCHANGED <<managerVars, allocVars, retryVars, clockVars, configVars, jsonVars, fetchVars, sessionVars, extractVars, codecVars, pipeVars, impl, k, coreInstalled, inputs, doneCount, orch, collided,
                   allocs, probed>>

\* The launched core reads its config and binds the SOCKS port; it exits when
\* the port is taken by another core, or when it rejects the config.
CoreStart(i) ==
    /\ proc[i] = "spawned"
    /\ \/ /\ Bindable(port[i])
          /\ proc' = [proc EXCEPT ![i] = "listening"]
          /\ UNCHANGED collided
       \/ /\ proc' = [proc EXCEPT ![i] = "exited"]
          /\ collided' = [collided EXCEPT ![i] = ~Bindable(port[i])]
    /\ UNCHANGED <<managerVars, allocVars, retryVars, clockVars, configVars, jsonVars, fetchVars, sessionVars, extractVars, codecVars, pipeVars, impl, k, coreInstalled, inputs, nodes, pc, tempDir, port,
                   urlIdx, lat, outcome, failure, valid, doneCount, progress,
                   orch, loop, steps, allocs, probed>>

\* bootstrap_xray: `if core_process.poll() is not None: raise RuntimeError`.
BootPoll(i) ==
    /\ pc[i] = "bootpoll"
    /\ IF proc[i] = "exited"
       THEN /\ OnLoop(i)
            /\ tempDir' = [tempDir EXCEPT ![i] = (impl = "tester")]
            /\ steps' = [steps EXCEPT ![i] =
                            IF impl = "tester" THEN @ ELSE Append(@, "cleanup")]
            /\ Finish(i, nodes[i], <<>>, TRUE, "bootpoll")
       ELSE /\ pc' = [pc EXCEPT ![i] = "poll"]
            /\ UNCHANGED <<nodes, tempDir, port, urlIdx, lat, outcome, failure,
                           valid, progress, loop, steps>>
    /\ UNCHANGED <<managerVars, allocVars, retryVars, clockVars, configVars, jsonVars, fetchVars, sessionVars, extractVars, codecVars, pipeVars, impl, k, coreInstalled, inputs, proc, doneCount, orch,
                   collided, allocs, probed>>

\* _measure_latency: `if proc.poll() is not None: return -1`, else the first
\* request is issued.
Poll(i) ==
    /\ pc[i] = "poll"
    /\ OnLoop(i)
    /\ IF proc[i] = "exited"
       THEN /\ lat' = [lat EXCEPT ![i] = <<-1>>]
            /\ failure' = [failure EXCEPT ![i] = "exited"]
            /\ pc' = [pc EXCEPT ![i] = "term"]
            /\ loop' = Hold(i, "term")
            /\ UNCHANGED urlIdx
       ELSE /\ pc' = [pc EXCEPT ![i] = "http"]
            /\ urlIdx' = [urlIdx EXCEPT ![i] = 1]
            /\ loop' = Hold(i, "http")
            /\ UNCHANGED <<lat, failure>>
    /\ UNCHANGED <<managerVars, allocVars, retryVars, clockVars, configVars, jsonVars, fetchVars, sessionVars, extractVars, codecVars, pipeVars, impl, k, coreInstalled, inputs, nodes, tempDir, port, proc,
                   outcome, valid, doneCount, progress, orch, collided, steps,
                   allocs, probed>>

\* One GET of TEST_URLS[urlIdx] through the local SOCKS port: 200/204 ends
\* the loop with the elapsed time, anything else moves to the next URL, and
\* -1 is returned when the list is exhausted.
Http(i) ==
    /\ pc[i] = "http"
    /\ OnLoop(i)
    /\ steps' = [steps EXCEPT ![i] = Append(@, "http")]
    /\ \E r \in HttpResponses(i) :
        IF r = "ok"
        THEN \E L \in LatencySamples :
             /\ lat' = [lat EXCEPT ![i] = <<L>>]
             /\ failure' = [failure EXCEPT ![i] = "range"]
             /\ pc' = [pc EXCEPT ![i] = "term"]
             /\ loop' = Hold(i, "term")
             /\ UNCHANGED urlIdx
        ELSE IF urlIdx[i] < NumTestUrls
        THEN /\ urlIdx' = [urlIdx EXCEPT ![i] = @ + 1]
             /\ loop' = Hold(i, "http")
             /\ UNCHANGED <<lat, failure, pc>>
        ELSE /\ lat' = [lat EXCEPT ![i] = <<-1>>]
             /\ failure' = [failure EXCEPT ![i] = "http"]
             /\ pc' = [pc EXCEPT ![i] = "term"]
             /\ loop' = Hold(i, "term")
             /\ UNCHANGED urlIdx
    /\ UNCHANGED <<managerVars, allocVars, retryVars, clockVars, configVars, jsonVars, fetchVars, sessionVars, extractVars, codecVars, pipeVars, impl, k, coreInstalled, inputs, nodes, tempDir, port, proc,
                   outcome, valid, doneCount, progress, orch, collided, allocs,
                   probed>>

\* The finally block: proc.terminate(); proc.wait(timeout=5); proc.kill()
\* when the wait times out; shutil.rmtree(temp_dir). Then the probe returns
\* what the try block computed.
Cleanup(i) ==
    /\ pc[i] = "term"
    /\ OnLoop(i)
    /\ steps' = [steps EXCEPT ![i] = Append(@, "cleanup")]
    /\ \E exitsInTime \in BOOLEAN :
        proc' = [proc EXCEPT ![i] = IF @ = "none" THEN @ ELSE "exited"]
    /\ tempDir' = [tempDir EXCEPT ![i] = FALSE]
    /\ Finish(i, nodes[i], lat[i], FALSE, failure[i])
    /\ UNCHANGED <<managerVars, allocVars, retryVars, clockVars, configVars, jsonVars, fetchVars, sessionVars, extractVars, codecVars, pipeVars, impl, k, coreInstalled, inputs, doneCount, orch, collided,
                   allocs, probed>>

\* The fault of a collector without its try/except: future.result() re-raises
\* the probe's exception in the orchestrator.
Collect_NoCatch(i) ==
    /\ orch = "running"
    /\ impl # "async"
    /\ pc[i] = "done"
    /\ pc' = [pc EXCEPT ![i] = "collected"]
    /\ doneCount' = doneCount + 1
    /\ IF outcome[i] = "raised"
       THEN /\ orch' = "raised"
            /\ UNCHANGED <<valid, progress>>
       ELSE /\ progress' = Append(progress, [idx |-> doneCount + 1,
                                   status |-> outcome[i], node |-> i])
            /\ valid' = IF outcome[i] = "accepted" THEN Append(valid, i)
                        ELSE valid
            /\ UNCHANGED orch
    /\ UNCHANGED <<managerVars, allocVars, retryVars, clockVars, configVars, jsonVars, fetchVars, sessionVars, extractVars, codecVars, pipeVars, impl, k, coreInstalled, inputs, nodes, tempDir, port, proc,
                   urlIdx, lat, outcome, failure, loop, collided, steps,
                   allocs, probed>>

\* The thread-pool collector: one turn of `for future in as_completed(...)`;
\* a result is appended, None is skipped, an exception is caught and logged.
Collect(i) ==
    /\ orch = "running"
    /\ impl # "async"
    /\ pc[i] = "done"
    /\ pc' = [pc EXCEPT ![i] = "collected"]
    /\ doneCount' = doneCount + 1
    /\ progress' = Append(progress, [idx |-> doneCount + 1,
                                     status |-> outcome[i], node |-> i])
    /\ valid' = IF outcome[i] = "accepted" THEN Append(valid, i) ELSE valid
    /\ UNCHANGED <<managerVars, allocVars, retryVars, clockVars, configVars, jsonVars, fetchVars, sessionVars, extractVars, codecVars, pipeVars, impl, k, coreInstalled, inputs, nodes, tempDir, port, proc,
                   urlIdx, lat, outcome, failure, orch, loop, collided, steps,
                   allocs, probed>>

\* test_all_nodes_latency returns valid_nodes.
Return ==
    /\ orch = "running"
    /\ AllCollected
    /\ orch' = "returned"
    /\ UNCHANGED <<managerVars, allocVars, retryVars, clockVars, configVars, jsonVars, fetchVars, sessionVars, extractVars, codecVars, pipeVars, impl, k, coreInstalled, inputs, nodes, pc, tempDir, port,
                   proc, urlIdx, lat, outcome, failure, valid, doneCount,
                   progress, loop, collided, steps, allocs, probed>>

Next ==
    \/ \E i \in Probes : Start(i)
    \/ \E i \in Probes : AllocPort(i)
    \/ \E i \in Probes : BuildConfig(i)
    \/ \E i \in Probes : Launch(i)
    \/ \E i \in Probes : CoreStart(i)
    \/ \E i \in Probes : BootPoll(i)
    \/ \E i \in Probes : Poll(i)
    \/ \E i \in Probes : Http(i)
    \/ \E i \in Probes : Cleanup(i)
    \/ \E i \in Probes : Collect(i)
    \/ Return

Spec == Init /\ [][Next]_vars

\* ------------------------------------------------- properties of the engine

\* C1: on every exit path of a probe (accepted, rejected, raised) its core
\* process has been terminated and its temporary directory removed.
C1_CleanupOnEveryExit ==
    \A i \in Probes :
        pc[i] \in {"done", "collected"} =>
            /\ ~tempDir[i]
            /\ proc[i] \notin {"spawned", "listening"}

\* C2: with max_workers = k, at most k probes are between the launch of their
\* core and the end of their cleanup at any moment.
C2_AtMostKRunning ==
    Cardinality({i \in Probes :
                    \/ pc[i] \in {"bootpoll", "poll", "http", "term"}
                    \/ proc[i] \in {"spawned", "listening"}}) <= k

\* k cores are alive while a further node waits for a worker
C2_Witness ==
    /\ Cardinality({i \in Probes : proc[i] \in {"spawned", "listening"}}) = k
    /\ \E i \in Probes : pc[i] = "queued"

\* C3: a probe that fails does not touch the others: the run is not aborted,
\* every other node is probed once and collected, the failed node is not in
\* the result and every accepted node is.
C3_FailureIsolated ==
    /\ orch # "raised"
    /\ orch = "returned" =>
        \A i \in Probes :
            outcome[i] = "raised" =>
                /\ ~\E x \in DOMAIN valid : valid[x] = i
                /\ \A j \in Probes \ {i} :
                    /\ pc[j] = "collected"
                    /\ probed[j] = 1
                    /\ outcome[j] = "accepted" <=>
                            \E x \in DOMAIN valid : valid[x] = j

\* a run has returned in which one probe raised and another was accepted
C3_Witness ==
    /\ orch = "returned"
    /\ \E i, j \in Probes :
        /\ outcome[i] = "raised"
        /\ outcome[j] = "accepted"
        /\ \E x \in DOMAIN valid : valid[x] = j

\* C4: the orchestrator returns only after every probe has finished; each
\* node was probed exactly once, and the result holds each accepted node
\* exactly once and no other node.
C4_ReturnsAfterAllProbes ==
    orch = "returned" =>
        \A i \in Probes :
            /\ pc[i] = "collected"
            /\ probed[i] = 1
            /\ Cardinality({x \in DOMAIN valid : valid[x] = i}) =
                    (IF outcome[i] = "accepted" THEN 1 ELSE 0)

\* a run has returned with an accepted and a rejected node
C4_Witness ==
    /\ orch = "returned"
    /\ \E i, j \in Probes :
        /\ outcome[i] = "accepted"
        /\ outcome[j] = "invalid" /\ failure[j] = "http"

C6_AcceptedCarriesLatency ==
    \A i \in Probes :
        /\ outcome[i] = "accepted" =>
            /\ nodes[i].latency = lat[i]
            /\ nodes[i].name = Append(inputs[i].name, lat[i][1])
        /\ outcome[i] = "invalid" => nodes[i] = inputs[i]

\* C7: a node of a kind without configuration builder is rejected without a
\* port having been allocated, a process launched or a directory left.
C7_UnsupportedKindNoSideEffect ==
    \A i \in Probes :
        (/\ pc[i] \in {"done", "collected"}
         /\ inputs[i].kind \notin BuilderKinds
         /\ ~PrecheckFails(inputs[i])) =>
            /\ outcome[i] = "invalid"
            /\ allocs[i] = 0
            /\ proc[i] = "none"
            /\ ~tempDir[i]

\* C8: when the core of a probe finds its port taken by another probe, the
\* probe allocates a port again; it is not rejected for the collision.
C8_CollisionRetried ==
    \A i \in Probes :
        (pc[i] \in {"done", "collected"} /\ collided[i]) =>
            /\ allocs[i] >= 2
            /\ failure[i] \notin {"exited", "bootpoll", "http"}

\* the position of a step in the documented order
StepRank(s) ==
    CASE s = "port" -> 1
      [] s = "write" -> 2
      [] s = "launch" -> 3
      [] s = "http" -> 4
      [] s = "cleanup" -> 5

\* C9: a probe performs its steps in the order port allocation, config
\* write, core launch, HTTP request, cleanup, and none without the one before.
C9_StepOrder ==
    \A i \in Probes :
        LET t == steps[i]
            Has(s) == \E a \in DOMAIN t : t[a] = s
        IN  /\ \A a, b \in DOMAIN t : a < b => StepRank(t[a]) <= StepRank(t[b])
            /\ Has("http") => Has("launch")
            /\ Has("launch") => Has("write")
            /\ Has("write") => Has("port")
            /\ pc[i] = "http" => Has("launch")

\* a probe has gone through all five steps
C9_Witness ==
    \E i \in Probes :
        steps[i] = <<"port", "write", "launch", "http", "cleanup">>

\* C20: one progress signal is emitted per finished probe; it tells whether
\* that node passed, and its counter is the number of probes completed so
\* far, so the counters read 1, 2, ... in emission order.
C20_ProgressCountsCompleted ==
    /\ Len(progress) = Cardinality({i \in Probes : pc[i] = "collected"})
    /\ \A x \in DOMAIN progress :
        /\ progress[x].idx = x
        /\ progress[x].status = outcome[progress[x].node]
        /\ \A y \in DOMAIN progress :
            progress[y].node = progress[x].node => y = x

C22_NoCoreAcceptsNothing ==
    ~coreInstalled =>
        /\ valid = <<>>
        /\ orch # "raised"
        /\ \A i \in Probes :
            /\ outcome[i] # "accepted"
            /\ proc[i] = "none"
            /\ impl = "main" => outcome[i] \in {"none", "invalid"}
            /\ outcome[i] = "raised" => failure[i] \in {"config", "launch"}
            /\ outcome[i] = "invalid" =>
                    failure[i] \in {"precheck", "nocore", "unsupported"}
        /\ \A x \in DOMAIN progress : progress[x].status # "accepted"

\* Tester has returned the empty list after the launcher raised in a probe
C22_Witness ==
    /\ ~coreInstalled
    /\ impl = "tester"
    /\ orch = "returned"
    /\ valid = <<>>
    /\ \E i \in Probes : outcome[i] = "raised" /\ failure[i] = "launch"

\* C22 as stated: without a core executable the run returns the empty list
\* without raising, and every node is reported invalid.
C22_EveryNodeReportedInvalid ==
    ~coreInstalled =>
        /\ valid = <<>>
        /\ orch # "raised"
        /\ \A x \in DOMAIN progress : progress[x].status = "invalid"

\* C26: when the launched core has exited by the first poll, the probe of
\* Tester / AsyncTester returns -1 (invalid), does not raise, and has issued
\* no HTTP request.
C26_ExitedAtFirstPollIsInvalid ==
    \A i \in Probes :
        /\ impl # "main"
        /\ pc[i] \in {"done", "collected"}
        /\ failure[i] \in {"bootpoll", "exited"}
        => /\ outcome[i] = "invalid"
           /\ lat[i] = <<-1>>
           /\ \A a \in DOMAIN steps[i] : steps[i][a] # "http"

\* probes whose core has been launched and whose finally block has not run
Launched == {i \in Probes : proc[i] # "none" /\ pc[i] \in {"bootpoll", "poll", "http", "term"}}

\* C37: two probes that have launched their core and not yet cleaned up never
\* use the same local SOCKS port, and so a request of a probe that gets a
\* response is served by that probe's own core.
C37_PortNeverShared ==
    /\ [](\A i, j \in Launched : i # j => port[i] # port[j])
    /\ [][\A i \in Probes :
            (pc[i] = "http" /\ lat'[i] # lat[i] /\ lat'[i] # <<-1>>)
                => proc[i] = "listening"]_vars

\* what the caller of test_all_nodes_latency can observe of probe i once it
\* has ended: how it ended, the node dict, and what it left on the machine
Observed(i) ==
    [outcome |-> outcome[i], node |-> nodes[i], dir |-> tempDir[i],
     core |-> proc[i] \in {"spawned", "listening"}]

\* AsyncTester on node n whose probe ended for the reason `why` with the
\* measurement L: exceptions of the builder, the write and bootstrap_xray
\* reach the task's except, a latency in range is accepted and annotated, and
\* the finally block has removed the directory and stopped the core on every
\* way out
AsyncResult(n, why, L) ==
    [outcome |-> IF why = "none" THEN "accepted"
                 ELSE IF why \in {"config", "launch", "bootpoll"} THEN "raised"
                 ELSE "invalid",
     node |-> IF why = "none" THEN TesterAnnotate(n, L[1]) ELSE n,
     dir |-> FALSE,
     core |-> FALSE]

\* C38: on the same node and the same outcome of its probe, Tester and
\* AsyncTester end alike: the same acceptance, the same latency and display
\* name, and the same resources left behind.
C38_TesterEqualsAsyncTester ==
    impl \in {"tester", "async"} =>
        \A i \in Probes :
            pc[i] \in {"done", "collected"} =>
                Observed(i) = AsyncResult(inputs[i], failure[i], lat[i])

\* ------------------------------------------------------------ extract_nodes

\* the loop `for x in ...: node = parse(x); if node: nodes.append(node)`
\* from item p on: the nodes of the items that parse, tagged with their origin
RECURSIVE Decoded(_, _, _)
Decoded(tag, items, p) ==
    IF p > Len(items) THEN <<>>
    ELSE (IF items[p] = 1 THEN << <<tag, p>> >> ELSE <<>>)
         \o Decoded(tag, items, p + 1)

\* strategy 1: decode the cleaned text, parse each line holding a URI
Base64Found(c) ==
    IF c.b64.ok THEN Decoded("Base64", c.b64.lines, 1) ELSE <<>>

\* the `except Exception as yaml_error` branch is entered: the try around
\* parse_clash_yaml and nodes.extend raised. parse_clash_yaml catches the
\* error of yaml.safe_load itself and returns [].
FallsBack(w) == w = "raise"

\* strategy 2: parse_clash_yaml on the text, and on its `proxies:` block when
\* extending by the first result raised
YamlFound(c) ==
    IF ~c.yamlInd THEN <<>>
    ELSE IF c.yaml.whole = "list"
    THEN [p \in 1..c.yaml.n |-> <<"YAML", p>>]
    ELSE IF ~FallsBack(c.yaml.whole) THEN <<>>
    ELSE IF c.yaml.frag = "list"
    THEN [p \in 1..c.yaml.m |-> <<"YAML-block", p>>]
    ELSE <<>>

\* strategy 3: re.findall per protocol, parse each match
RegexFound(c) == Decoded("Regex", c.regex, 1)

\* the loop over json_matches from fragment p on: the first fragment that
\* gives nodes ends it
RECURSIVE FirstFragment(_, _)
FirstFragment(frags, p) ==
    IF p > Len(frags) THEN <<>>
    ELSE IF frags[p] = "nodes" THEN << <<"JSON-fragment", p>> >>
    ELSE FirstFragment(frags, p + 1)

\* strategy 4: json.loads of the text, else of its bracketed fragments
JsonFound(c) ==
    IF c.json.whole = "ok"
    THEN IF \E p \in DOMAIN c.json.items : c.json.items[p] = 2
         THEN \* parse_json_nodes raises, its list is lost, the block's
              \* `except Exception` logs the error
              <<>>
         ELSE Decoded("JSON", c.json.items, 1)
    ELSE IF c.json.whole = "decodeError" THEN FirstFragment(c.json.frags, 1)
    ELSE <<>>

\* The fault of a cascade without short-circuit: every strategy runs.
ReturnsEarly_Never(ns) == FALSE

\* `if len(nodes) > 0: return nodes` after a strategy
ReturnsEarly(ns) == Len(ns) > 0

\* the end of a strategy block: return, or fall through to the next block
StageEnd(ns, nextpc) ==
    /\ exNodes' = ns
    /\ IF ReturnsEarly(ns)
       THEN IF exTried' = <<>>
            THEN \* methods_tried[-1] in the log line raises IndexError
                 exPc' = "raised" /\ UNCHANGED exResult
            ELSE exPc' = "returned" /\ exResult' = ns
       ELSE exPc' = nextpc /\ UNCHANGED exResult

\* extract_nodes(content) is entered: `if not content: return []`
ExtractCall ==
    /\ exPc = "call"
    /\ IF content.empty
       THEN exPc' = "returned"
       ELSE exPc' = "base64"
    /\ UNCHANGED <<managerVars, allocVars, retryVars, clockVars, configVars, jsonVars, fetchVars, sessionVars, probeVars, codecVars, pipeVars, content, exNodes, exTried, exRan, exResult>>

\* The fault of a Base64 block that does not record itself.
Base64Tried_Forgotten(c, tried) == tried

\* methods_tried.append("Base64") once the decoded text holds a protocol
Base64Tried(c, tried) == IF c.b64.ok THEN Append(tried, "Base64") ELSE tried

ExtractBase64 ==
    /\ exPc = "base64"
    /\ exRan' = Append(exRan, "Base64")
    /\ exTried' = Base64Tried(content, exTried)
    /\ StageEnd(exNodes \o Base64Found(content), "yaml")
    /\ UNCHANGED <<managerVars, allocVars, retryVars, clockVars, configVars, jsonVars, fetchVars, sessionVars, probeVars, codecVars, pipeVars, content>>

ExtractYaml ==
    /\ exPc = "yaml"
    /\ exRan' = Append(exRan, "YAML")
    /\ exTried' = IF content.yamlInd THEN Append(exTried, "YAML") ELSE exTried
    /\ StageEnd(exNodes \o YamlFound(content), "regex")
    /\ UNCHANGED <<managerVars, allocVars, retryVars, clockVars, configVars, jsonVars, fetchVars, sessionVars, probeVars, codecVars, pipeVars, content>>

ExtractRegex ==
    /\ exPc = "regex"
    /\ exRan' = Append(exRan, "Regex")
    /\ exTried' = Append(exTried, "Regex")
    /\ StageEnd(exNodes \o RegexFound(content), "json")
    /\ UNCHANGED <<managerVars, allocVars, retryVars, clockVars, configVars, jsonVars, fetchVars, sessionVars, probeVars, codecVars, pipeVars, content>>

\* the last block returns `nodes` when it is non-empty and [] otherwise
ExtractJson ==
    /\ exPc = "json"
    /\ exRan' = Append(exRan, "JSON")
    /\ exTried' = Append(exTried, "JSON")
    /\ exNodes' = exNodes \o JsonFound(content)
    /\ exResult' = exNodes'
    /\ exPc' = "returned"
    /\ UNCHANGED <<managerVars, allocVars, retryVars, clockVars, configVars, jsonVars, fetchVars, sessionVars, probeVars, codecVars, pipeVars, content>>

\* extract_nodes is called on one subscription text
InitExtract ==
    /\ impl = "main"
    /\ k = 1
    /\ coreInstalled = FALSE
    /\ ProbeInit
    /\ SessionIdle
    /\ FetchIdle
    /\ ManagerIdle
    /\ AllocIdle
    /\ RetryIdle
    /\ ClockIdle
    /\ ConfigIdle
    /\ JsonIdle
    /\ IsContent(content)
    /\ exPc = "call"
    /\ exNodes = <<>>
    /\ exTried = <<>>
    /\ exRan = <<>>
    /\ exResult = <<>>
    /\ CodecIdle
    /\ PipeIdle

NextExtract ==
    \/ ExtractCall
    \/ ExtractBase64
    \/ ExtractYaml
    \/ ExtractRegex
    \/ ExtractJson

SpecExtract == InitExtract /\ [][NextExtract]_vars

\* the documented order of the strategies
StrategyOrder == <<"Base64", "YAML", "Regex", "JSON">>

\* C10: extract_nodes tries Base64, YAML, Regex, JSON strictly in that order
\* and returns the nodes of the first strategy that yields at least one node;
\* no later strategy is run and none of its nodes is mixed into the result.
C10_FirstYieldingStrategyWins ==
    /\ \E n \in 0..4 : exRan = SubSeq(StrategyOrder, 1, n)
    /\ (exPc = "returned" /\ ~content.empty) =>
        LET ys == <<Base64Found(content), YamlFound(content),
                    RegexFound(content), JsonFound(content)>>
            hits == {s \in 1..4 : ys[s] # <<>>}
            first == IF hits = {} THEN 4
                     ELSE CHOOSE s \in hits : \A t \in hits : s <= t
        IN  /\ exResult = ys[first]
            /\ exRan = SubSeq(StrategyOrder, 1, first)

\* a text that is Base64 of URIs, carries YAML indicators with proxies, and
\* matches the URI patterns, has returned exactly its Base64 nodes
C10_Witness ==
    /\ exPc = "returned"
    /\ content.b64.ok /\ Len(Base64Found(content)) = MaxItems
    /\ content.yamlInd /\ content.yaml.whole = "list" /\ content.yaml.n > 0
    /\ RegexFound(content) # <<>>
    /\ exResult = Base64Found(content)
    /\ exRan = <<"Base64">>

\* C11: on any text extract_nodes returns a list and never raises; when no
\* strategy yields a node the list is empty.
C11_ReturnsListNeverRaises ==
    /\ exPc # "raised"
    /\ exPc = "returned" =>
        /\ DOMAIN exResult = 1..Len(exResult)
        /\ (/\ Base64Found(content) = <<>>
            /\ YamlFound(content) = <<>>
            /\ RegexFound(content) = <<>>
            /\ JsonFound(content) = <<>>) => exResult = <<>>

\* a text on which the YAML block and the JSON block both failed inside and
\* nothing was found has returned the empty list
C11_Witness ==
    /\ exPc = "returned"
    /\ ~content.empty
    /\ content.yamlInd /\ content.yaml.whole = "raise"
    /\ content.yaml.frag = "raise"
    /\ content.json.whole = "otherError"
    /\ exRan = StrategyOrder
    /\ exResult = <<>>

\* C29: when yaml.safe_load fails on the whole text, the YAML strategy parses
\* the text's `proxies:` block alone and returns the nodes found in it.
C29_ParseFailureFallsBackToBlock ==
    (/\ exPc = "returned"
     /\ Base64Found(content) = <<>>
     /\ content.yamlInd
     /\ content.yaml.whole = "parseError"
     /\ content.yaml.frag = "list"
     /\ content.yaml.m > 0)
    => exResult = [p \in 1..content.yaml.m |-> <<"YAML-block", p>>]

\* C30: within the strategy that ran last, an item that fails to decode is
\* skipped and every item that decodes is returned.
C30_FailedItemSkippedOthersKept ==
    exPc = "returned" =>
        /\ exRan = <<"Base64">> =>
                exResult = Decoded("Base64", content.b64.lines, 1)
        /\ exRan = <<"Base64", "YAML", "Regex">> =>
                exResult = Decoded("Regex", content.regex, 1)
        /\ exRan = StrategyOrder /\ content.json.whole = "ok" =>
                exResult = Decoded("JSON", content.json.items, 1)

\* --------------------------------------------------------------- UriCodec
\* node_to_v2ray_uri and parse_v2ray_uri (src/parser.py; main.py holds an
\* identical copy of the parser).
\*
\* A Python str is a sequence of tokens. A token is a tagged pair: <<"c", w>>
\* is the word or delimiter w written out, <<"b64", t>> is the Base64 encoding
\* of the text t, <<"json", cfg>> is json.dumps of the object cfg and
\* <<"jsonarr", <<>>>> is the JSON text "[]". Words hold no delimiter, are
\* lower case, need no percent-escape and are not themselves valid Base64.

C(w) == <<"c", w>>

\* the one-word text w
Str(w) == <<C(w)>>

\* base64.b64encode(t.encode()).decode(): one token, nothing for ''
B64(t) == IF t = <<>> THEN <<>> ELSE <<<<"b64", t>>>>

\* json.dumps(cfg)
Json(cfg) == <<"json", cfg>>

JsonArr == <<"jsonarr", <<>>>>

\* str(n) of an int
StrOf(n) == Str(ToString(n))

\* the ints whose decimal form the samples write
IntSamples == {0, 1, 80, 443, 1080, 51820, 65535, 70000}

IsDigits(t) == Len(t) = 1 /\ \E n \in IntSamples : t = StrOf(n)

\* int(t) of a str of digits
IntOf(t) == CHOOSE n \in IntSamples : t = StrOf(n)

\* t.find(d): the first position of the token d in t, 0 when absent
Find(t, d) ==
    IF \E i \in DOMAIN t : t[i] = d
    THEN CHOOSE i \in DOMAIN t : t[i] = d /\ \A j \in 1..(i - 1) : t[j] # d
    ELSE 0

\* t.rfind(d): the last position of d in t, 0 when absent
RFind(t, d) ==
    IF \E i \in DOMAIN t : t[i] = d
    THEN CHOOSE i \in DOMAIN t : t[i] = d /\ \A j \in (i + 1)..Len(t) : t[j] # d
    ELSE 0

\* t[:i-1] and t[i:] around position i
Before(t, i) == SubSeq(t, 1, i - 1)

After(t, i) == SubSeq(t, i + 1, Len(t))

\* t.partition(d): <<head, found, tail>>
Partition(t, d) ==
    IF Find(t, d) = 0
    THEN <<t, FALSE, <<>>>>
    ELSE <<Before(t, Find(t, d)), TRUE, After(t, Find(t, d))>>

\* t.rpartition(d): <<head, found, tail>>
RPartition(t, d) ==
    IF RFind(t, d) = 0
    THEN <<<<>>, FALSE, t>>
    ELSE <<Before(t, RFind(t, d)), TRUE, After(t, RFind(t, d))>>

\* t.split(d): the pieces of t between the occurrences of d
RECURSIVE Split(_, _)
Split(t, d) ==
    IF Find(t, d) = 0
    THEN <<t>>
    ELSE <<Before(t, Find(t, d))>> \o Split(After(t, Find(t, d)), d)

\* t.replace(d, ''): t without the token d
RECURSIVE Remove(_, _)
Remove(t, d) ==
    IF t = <<>> THEN <<>>
    ELSE IF Head(t) = d THEN Remove(Tail(t), d)
    ELSE <<Head(t)>> \o Remove(Tail(t), d)

\* 'sep'.join(parts)
RECURSIVE Join(_, _)
Join(parts, sep) ==
    IF parts = <<>> THEN <<>>
    ELSE IF Len(parts) = 1 THEN parts[1]
    ELSE parts[1] \o <<sep>> \o Join(Tail(parts), sep)

\* base64.b64decode(t + padding).decode(): the text inside a Base64 token;
\* anything else raises binascii.Error or UnicodeDecodeError
B64Ok(t) == t = <<>> \/ (Len(t) = 1 /\ t[1][1] = "b64")

B64Text(t) == IF t = <<>> THEN <<>> ELSE t[1][2]

\* ---- urllib.parse.urlparse on a uri whose first token is its scheme prefix
\* ("trojan://", ...): the netloc runs up to the first of / ? #, the fragment
\* follows the first #, the query follows the first ? before it.

IsNetlocEnd(tok) == tok = C("/") \/ tok = C("?") \/ tok = C("#")

NetlocEnd(t) ==
    IF \E i \in DOMAIN t : IsNetlocEnd(t[i])
    THEN CHOOSE i \in DOMAIN t :
            IsNetlocEnd(t[i]) /\ \A j \in 1..(i - 1) : ~IsNetlocEnd(t[j])
    ELSE Len(t) + 1

UrlNetloc(uri) == Before(Tail(uri), NetlocEnd(Tail(uri)))

UrlQuery(uri) ==
    LET rest == SubSeq(Tail(uri), NetlocEnd(Tail(uri)), Len(Tail(uri)))
        noFragment == Partition(rest, C("#"))[1]
    IN Partition(noFragment, C("?"))[3]

\* netloc.rpartition('@'): userinfo, have_info, hostinfo
UserInfo(uri) == RPartition(UrlNetloc(uri), C("@"))

\* parsed.username or '' (None and '' are both the empty text)
UrlUsername(uri) ==
    IF UserInfo(uri)[2] THEN Partition(UserInfo(uri)[1], C(":"))[1] ELSE <<>>

\* parsed.password or ''
UrlPassword(uri) ==
    IF UserInfo(uri)[2] THEN Partition(UserInfo(uri)[1], C(":"))[3] ELSE <<>>

\* parsed.hostname or ''
UrlHostname(uri) == Partition(UserInfo(uri)[3], C(":"))[1]

\* the port text of _hostinfo
UrlPortText(uri) == Partition(UserInfo(uri)[3], C(":"))[3]

\* parsed.port raises ValueError: the port is not a decimal number or is
\* above 65535
UrlPortRaises(uri) ==
    /\ UrlPortText(uri) # <<>>
    /\ \/ ~IsDigits(UrlPortText(uri))
       \/ IntOf(UrlPortText(uri)) > 65535

\* parsed.port or default: None (no port text) and 0 give the default
UrlPortOr(uri, default) ==
    IF UrlPortText(uri) = <<>> \/ IntOf(UrlPortText(uri)) = 0
    THEN default
    ELSE IntOf(UrlPortText(uri))

\* ---- urllib.parse.parse_qs: fields split at &, name and value at the first
\* =, fields without a value dropped
QsFields(q) == Split(q, C("&"))

QsIs(field, key) ==
    /\ Partition(field, C("="))[1] = Str(key)
    /\ Partition(field, C("="))[3] # <<>>

QsHas(q, key) == \E i \in DOMAIN QsFields(q) : QsIs(QsFields(q)[i], key)

\* query.get(key, [default])[0]
QsGet(q, key, default) ==
    IF QsHas(q, key)
    THEN LET i == CHOOSE x \in DOMAIN QsFields(q) :
                    /\ QsIs(QsFields(q)[x], key)
                    /\ \A y \in 1..(x - 1) : ~QsIs(QsFields(q)[y], key)
         IN Partition(QsFields(q)[i], C("="))[3]
    ELSE default

\* ---- node_to_v2ray_uri
\* A node is a record: type is the kind, port and alterId are ints, tls is a
\* bool, every other field is a text. A dict key is a record field.

Has(n, f) == f \in DOMAIN n

\* node.get(f, default)
Get(n, f, default) == IF Has(n, f) THEN n[f] ELSE default

\* the kinds node_to_v2ray_uri has a branch for
EncodedKinds == {"vmess", "trojan", "vless", "ss", "ssr", "http", "https",
                 "socks", "hysteria", "wireguard"}

\* the keys the branch of a kind reads with node[...]
Subscripted(kind) ==
    CASE kind = "vmess" -> {"name", "server", "port", "uuid", "alterId"}
      [] kind = "trojan" -> {"password", "server", "port", "name"}
      [] kind = "vless" -> {"uuid", "server", "port", "name"}
      [] kind = "ss" -> {"cipher", "password", "server", "port", "name"}
      [] kind = "ssr" -> {"password", "name", "server", "port", "protocol",
                          "cipher", "obfs"}
      [] OTHER -> {"server", "port", "name"}

\* f"{node['server']}:{node['port']}"
HostPort(n) == n.server \o <<C(":")>> \o StrOf(n.port)

VmessConfig(n) ==
    [v |-> <<Str("2")>>,
     ps |-> <<n.name>>,
     add |-> <<n.server>>,
     port |-> <<StrOf(n.port)>>,
     id |-> <<n.uuid>>,
     aid |-> <<StrOf(n.alterId)>>,
     net |-> <<Get(n, "network", Str("tcp"))>>,
     type |-> <<Str(n.type)>>,
     tls |-> <<IF Get(n, "tls", FALSE) THEN Str("tls") ELSE <<>> >>]

VlessQuery(n) ==
    Join((IF Get(n, "tls", FALSE)
          THEN <<<<C("security"), C("="), C("tls")>>>> ELSE <<>>)
         \o (IF Get(n, "flow", <<>>) # <<>>
             THEN <<<<C("flow"), C("=")>> \o n.flow>> ELSE <<>>)
         \o (IF Get(n, "network", <<>>) # <<>>
             THEN <<<<C("type"), C("=")>> \o n.network>> ELSE <<>>),
         C("&"))

WireguardQuery(n) ==
    Join((IF Get(n, "private_key", <<>>) # <<>>
          THEN <<<<C("privateKey"), C("=")>> \o n.private_key>> ELSE <<>>)
         \o (IF Get(n, "public_key", <<>>) # <<>>
             THEN <<<<C("publicKey"), C("=")>> \o n.public_key>> ELSE <<>>)
         \o (IF Get(n, "allowed_ips", <<>>) # <<>>
             THEN <<<<C("allowedIPs"), C("=")>> \o n.allowed_ips>> ELSE <<>>),
         C("&"))

\* auth of the http/https branch: "{username}:{password}@ {username}"
HttpAuth(n) ==
    Get(n, "username", <<>>) \o <<C(":")>> \o Get(n, "password", <<>>)
        \o <<C("@"), C(" ")>> \o Get(n, "username", <<>>)

\* auth of the socks branch: the last part is node.get('username'), which
\* formats as "None" when the key is absent
SocksAuth(n) ==
    Get(n, "username", <<>>) \o <<C(":")>> \o Get(n, "password", <<>>)
        \o <<C("@"), C(" ")>> \o Get(n, "username", Str("None"))

\* the text a branch returns
UriText(n) ==
    CASE n.type = "vmess" -> <<C("vmess://")>> \o B64(<<Json(VmessConfig(n))>>)
      [] n.type = "trojan" ->
            <<C("trojan://")>> \o n.password \o <<C("@")>> \o HostPort(n)
                \o <<C("?"), C("sni"), C("=")>> \o n.name
      [] n.type = "vless" ->
            <<C("vless://")>> \o n.uuid \o <<C("@")>> \o HostPort(n)
                \o <<C("?")>> \o VlessQuery(n)
                \o <<C("&"), C("remarks"), C("=")>> \o n.name
      [] n.type = "ss" ->
            <<C("ss://")>> \o B64(n.cipher \o <<C(":")>> \o n.password)
                \o <<C("@")>> \o HostPort(n) \o <<C("#")>> \o n.name
      [] n.type = "ssr" ->
            <<C("ssr://")>>
                \o B64(HostPort(n) \o <<C(":")>> \o n.protocol \o <<C(":")>>
                       \o n.cipher \o <<C(":")>> \o n.obfs \o <<C(":")>>
                       \o B64(n.password)
                       \o <<C("/"), C("?"), C("remarks"), C("=")>>
                       \o B64(n.name))
      [] n.type \in {"http", "https"} ->
            <<C(IF n.type = "http" THEN "http://" ELSE "https://")>>
                \o HttpAuth(n) \o HostPort(n)
                \o <<C("?"), C("remarks"), C("=")>> \o n.name
      [] n.type = "socks" ->
            <<C("socks://")>> \o SocksAuth(n) \o HostPort(n)
                \o <<C("?"), C("remarks"), C("=")>> \o n.name
      [] n.type = "hysteria" ->
            <<C("hysteria://")>>
                \o (IF Get(n, "auth", <<>>) # <<>>
                    THEN n.auth \o <<C("@")>> ELSE <<>>)
                \o HostPort(n)
                \o (IF Get(n, "protocol", <<>>) # <<>>
                    THEN <<C("?"), C("protocol"), C("=")>> \o n.protocol
                    ELSE <<>>)
                \o <<C("&"), C("peer"), C("=")>> \o n.name
      [] n.type = "wireguard" ->
            <<C("wireguard://")>> \o HostPort(n) \o <<C("?")>>
                \o WireguardQuery(n)
                \o <<C("&"), C("remarks"), C("=")>> \o n.name

\* node_to_v2ray_uri(node): a uri, None for a kind without branch, or the
\* KeyError/TypeError of a subscript the node cannot serve
NodeToUri(n) ==
    IF ~Has(n, "type") THEN [tag |-> "raise", text |-> <<>>]
    ELSE IF n.type \notin EncodedKinds THEN [tag |-> "None", text |-> <<>>]
    ELSE IF ~(Subscripted(n.type) \subseteq DOMAIN n)
         THEN [tag |-> "raise", text |-> <<>>]
    ELSE [tag |-> "uri", text |-> UriText(n)]

\* ---- parse_v2ray_uri
\* The value handed in is [str |-> it is a str, text |-> its text]. A result
\* is a node, None, or (inside the body) a raised exception.

GotNode(n) == [tag |-> "node", node |-> n]

GotNone == [tag |-> "None", node |-> NoRecord]

Raised == [tag |-> "raise", node |-> NoRecord]

StartsWith(u, prefix) == u.text # <<>> /\ u.text[1] = C(prefix)

\* json.loads(t) of the vmess branch
IsJsonObject(t) == Len(t) = 1 /\ t[1][1] = "json"

IsJsonArray(t) == t = <<JsonArr>>

\* the keys the vmess branch reads
VmessKeys == {"v", "ps", "add", "port", "id", "aid", "net", "type", "tls"}

\* config.get(key, default): a key holds <<>> (absent) or <<text>>
CfgGet(cfg, key, default) == IF cfg[key] = <<>> THEN default ELSE cfg[key][1]

\* int(config.get(key, 0)) raises ValueError
CfgIntRaises(cfg, key) == cfg[key] # <<>> /\ ~IsDigits(cfg[key][1])

CfgInt(cfg, key) == IF cfg[key] = <<>> THEN 0 ELSE IntOf(cfg[key][1])

ParseVmess(u) ==
    LET b64_config == Remove(u.text, C("vmess://"))
        decoded == B64Text(b64_config)
        config == decoded[1][2]
    IN IF ~B64Ok(b64_config) THEN Raised
       ELSE IF IsJsonArray(decoded) THEN Raised
       ELSE IF ~IsJsonObject(decoded) THEN GotNone
       ELSE IF CfgIntRaises(config, "port") \/ CfgIntRaises(config, "aid")
            THEN Raised
       ELSE GotNode([type |-> "vmess",
                     name |-> CfgGet(config, "ps", Str("Unknown")),
                     server |-> CfgGet(config, "add", <<>>),
                     port |-> CfgInt(config, "port"),
                     uuid |-> CfgGet(config, "id", <<>>),
                     alterId |-> CfgInt(config, "aid"),
                     cipher |-> CfgGet(config, "type", Str("auto")),
                     tls |-> CfgGet(config, "tls", <<>>) = Str("tls"),
                     network |-> CfgGet(config, "net", Str("tcp"))])

ParseTrojan(u) ==
    LET query == UrlQuery(u.text)
    IN IF UrlPortRaises(u.text) THEN Raised
       ELSE GotNode([type |-> "trojan",
                     name |-> QsGet(query, "sni",
                                    QsGet(query, "peer", Str("Unknown"))),
                     server |-> UrlHostname(u.text),
                     port |-> UrlPortOr(u.text, 443),
                     password |-> UrlUsername(u.text)])

ParseVless(u) ==
    LET query == UrlQuery(u.text)
    IN IF UrlPortRaises(u.text) THEN Raised
       ELSE GotNode([type |-> "vless",
                     name |-> QsGet(query, "remarks",
                                    QsGet(query, "sni", Str("Unknown"))),
                     server |-> UrlHostname(u.text),
                     port |-> UrlPortOr(u.text, 443),
                     uuid |-> UrlUsername(u.text),
                     tls |-> QsGet(query, "security", <<>>) = Str("tls"),
                     flow |-> QsGet(query, "flow", <<>>),
                     network |-> QsGet(query, "type", Str("tcp"))])

\* method and password out of the userinfo of ss://userinfo@host:port
SsMethodPassword(userinfo) ==
    LET plain == IF B64Ok(userinfo) THEN B64Text(userinfo) ELSE userinfo
    IN IF userinfo = <<>> THEN <<Str("aes-256-gcm"), <<>>>>
       ELSE IF Find(plain, C(":")) # 0
            THEN <<Partition(plain, C(":"))[1], Partition(plain, C(":"))[3]>>
       ELSE <<Str("aes-256-gcm"), userinfo>>

\* <<"pct", w>> is the text w written with percent escapes (quote(w))
Pct(w) == <<"pct", w>>

\* urllib.parse.unquote: every escaped stretch becomes the text it stands for
Unquote(t) == [i \in DOMAIN t |-> IF t[i][1] = "pct" THEN C(t[i][2]) ELSE t[i]]

ParseSs(u) ==
    LET hasName == Find(u.text, C("#")) # 0
        name == IF hasName THEN Unquote(After(u.text, Find(u.text, C("#"))))
                ELSE Str("Unknown")
        uri == IF hasName THEN Before(u.text, Find(u.text, C("#")))
               ELSE u.text
        b64_config == Remove(uri, C("ss://"))
        config_str == B64Text(b64_config)
        method_pwd == RPartition(config_str, C("@"))[1]
        server_port == RPartition(config_str, C("@"))[3]
    IN IF Find(uri, C("@")) # 0
       THEN IF UrlPortRaises(uri) THEN Raised
            ELSE GotNode([type |-> "ss",
                          name |-> QsGet(UrlQuery(uri), "remarks", name),
                          server |-> UrlHostname(uri),
                          port |-> UrlPortOr(uri, 443),
                          cipher |-> SsMethodPassword(UrlUsername(uri))[1],
                          password |-> SsMethodPassword(UrlUsername(uri))[2]])
       ELSE IF ~B64Ok(b64_config) THEN GotNone
       ELSE IF Find(config_str, C("@")) = 0 THEN GotNone
       ELSE IF \/ Find(method_pwd, C(":")) = 0
               \/ Find(server_port, C(":")) = 0
               \/ ~IsDigits(RPartition(server_port, C(":"))[3])
            THEN GotNone
       ELSE GotNode([type |-> "ss",
                     name |-> name,
                     server |-> RPartition(server_port, C(":"))[1],
                     port |-> IntOf(RPartition(server_port, C(":"))[3]),
                     cipher |-> Partition(method_pwd, C(":"))[1],
                     password |-> Partition(method_pwd, C(":"))[3]])

\* t.find(a + b): the first position where the tokens a, b follow each other
FindPair(t, a, b) ==
    IF \E i \in 1..(Len(t) - 1) : t[i] = a /\ t[i + 1] = b
    THEN CHOOSE i \in 1..(Len(t) - 1) :
            /\ t[i] = a /\ t[i + 1] = b
            /\ \A j \in 1..(i - 1) : ~(t[j] = a /\ t[j + 1] = b)
    ELSE 0

ParseSsr(u) ==
    LET b64_config == Remove(u.text, C("ssr://"))
        parts == Split(B64Text(b64_config), C(":"))
        cut == FindPair(parts[6], C("/"), C("?"))
        password_b64 == IF cut = 0 THEN parts[6] ELSE Before(parts[6], cut)
        params == IF cut = 0 THEN <<>> ELSE After(parts[6], cut + 1)
        at == FindPair(params, C("remarks"), C("="))
        remarks_b64 == Partition(After(params, at + 1), C("&"))[1]
    IN IF ~B64Ok(b64_config) THEN GotNone
       ELSE IF Len(parts) < 6 THEN GotNone
       ELSE IF ~B64Ok(password_b64) \/ ~IsDigits(parts[2]) THEN GotNone
       ELSE GotNode([type |-> "ssr",
                     name |-> IF cut # 0 /\ at # 0 /\ B64Ok(remarks_b64)
                              THEN B64Text(remarks_b64) ELSE Str("Unknown"),
                     server |-> parts[1],
                     port |-> IntOf(parts[2]),
                     protocol |-> parts[3],
                     cipher |-> parts[4],
                     obfs |-> parts[5],
                     password |-> B64Text(password_b64)])

ParseHttp(u) ==
    LET query == UrlQuery(u.text)
        plain == StartsWith(u, "http://")
    IN IF UrlPortRaises(u.text) THEN Raised
       ELSE GotNode([type |-> IF plain THEN "http" ELSE "https",
                     name |-> QsGet(query, "remarks", Str("Unknown")),
                     server |-> UrlHostname(u.text),
                     port |-> UrlPortOr(u.text, IF plain THEN 80 ELSE 443),
                     username |-> UrlUsername(u.text),
                     password |-> UrlPassword(u.text)])

ParseSocks(u) ==
    LET query == UrlQuery(u.text)
    IN IF UrlPortRaises(u.text) THEN Raised
       ELSE GotNode([type |-> "socks",
                     name |-> QsGet(query, "remarks", Str("Unknown")),
                     server |-> UrlHostname(u.text),
                     port |-> UrlPortOr(u.text, 1080),
                     username |-> UrlUsername(u.text),
                     password |-> UrlPassword(u.text)])

ParseHysteria(u) ==
    LET query == UrlQuery(u.text)
    IN IF UrlPortRaises(u.text) THEN Raised
       ELSE GotNode([type |-> "hysteria",
                     name |-> QsGet(query, "peer", Str("Unknown")),
                     server |-> UrlHostname(u.text),
                     port |-> UrlPortOr(u.text, 443),
                     protocol |-> QsGet(query, "protocol", <<>>),
                     auth |-> IF UrlUsername(u.text) # <<>>
                              THEN UrlUsername(u.text)
                              ELSE QsGet(query, "auth", <<>>)])

ParseWireguard(u) ==
    LET query == UrlQuery(u.text)
    IN IF UrlPortRaises(u.text) THEN Raised
       ELSE GotNode([type |-> "wireguard",
                     name |-> QsGet(query, "remarks", Str("Unknown")),
                     server |-> UrlHostname(u.text),
                     port |-> UrlPortOr(u.text, 51820),
                     private_key |-> QsGet(query, "privateKey", <<>>),
                     public_key |-> QsGet(query, "publicKey", <<>>),
                     allowed_ips |-> QsGet(query, "allowedIPs",
                                           Str("0.0.0.0/0"))])

\* the body of parse_v2ray_uri inside its try: the branch of the scheme
\* prefix; a value that is no str raises on uri.startswith, a str without a
\* known prefix falls off the end and gives None
ParseBody(u) ==
    IF ~u.str THEN Raised
    ELSE IF StartsWith(u, "vmess://") THEN ParseVmess(u)
    ELSE IF StartsWith(u, "trojan://") THEN ParseTrojan(u)
    ELSE IF StartsWith(u, "vless://") THEN ParseVless(u)
    ELSE IF StartsWith(u, "ss://") THEN ParseSs(u)
    ELSE IF StartsWith(u, "ssr://") THEN ParseSsr(u)
    ELSE IF StartsWith(u, "http://") \/ StartsWith(u, "https://")
         THEN ParseHttp(u)
    ELSE IF StartsWith(u, "socks://") \/ StartsWith(u, "socks5://")
         THEN ParseSocks(u)
    ELSE IF StartsWith(u, "hysteria://") THEN ParseHysteria(u)
    ELSE IF StartsWith(u, "wireguard://") THEN ParseWireguard(u)
    ELSE GotNone

\* a parser whose outer except clause is missing
ParseUri_NoCatch(u) == ParseBody(u)

\* parse_v2ray_uri(uri): `except Exception: return None` around the body
ParseUri(u) == IF ParseBody(u).tag = "raise" THEN GotNone ELSE ParseBody(u)

\* ---- the codec run: a valid node is encoded and the uri parsed back, or a
\* given value is parsed

Hosts == {Str("h"), Str("g")}

PortSamples == {1, 443, 65535}

\* a valid node of every encoded kind, with the fields its decoder branch
\* produces; a and b switch its optional parts
IsValidNode(n) ==
    \E kind \in EncodedKinds, server \in Hosts, portNo \in PortSamples,
       a \in BOOLEAN, b \in BOOLEAN :
        LET opt(flag, w) == IF flag THEN Str(w) ELSE <<>>
        IN n = CASE kind = "vmess" ->
                      [type |-> kind, name |-> Str("n"), server |-> server,
                       port |-> portNo, uuid |-> Str("id"),
                       alterId |-> IF a THEN 1 ELSE 0,
                       cipher |-> Str("auto"), tls |-> b,
                       network |-> IF a THEN Str("ws") ELSE Str("tcp")]
                 [] kind = "trojan" ->
                      [type |-> kind, name |-> Str("n"), server |-> server,
                       port |-> portNo,
                       password |-> IF a /\ b THEN Str("q") ELSE Str("pw")]
                 [] kind = "vless" ->
                      [type |-> kind, name |-> Str("n"), server |-> server,
                       port |-> portNo, uuid |-> Str("id"), tls |-> a,
                       flow |-> opt(b, "xtls"), network |-> Str("ws")]
                 [] kind = "ss" ->
                      [type |-> kind, name |-> Str("n"), server |-> server,
                       port |-> portNo,
                       cipher |-> IF a THEN Str("aes-256-gcm")
                                  ELSE Str("rc4"),
                       password |-> IF b THEN Str("q") ELSE Str("pw")]
                 [] kind = "ssr" ->
                      [type |-> kind, name |-> Str("n"), server |-> server,
                       port |-> portNo, protocol |-> Str("origin"),
                       cipher |-> IF a THEN Str("aes-256-gcm")
                                  ELSE Str("rc4"),
                       obfs |-> Str("plain"),
                       password |-> IF b THEN Str("q") ELSE Str("pw")]
                 [] kind \in {"http", "https", "socks"} ->
                      [type |-> kind, name |-> Str("n"), server |-> server,
                       port |-> portNo, username |-> opt(a, "u"),
                       password |-> opt(b, "pw")]
                 [] kind = "hysteria" ->
                      [type |-> kind, name |-> Str("n"), server |-> server,
                       port |-> portNo, protocol |-> opt(a, "udp"),
                       auth |-> opt(b, "au")]
                 [] kind = "wireguard" ->
                      [type |-> kind, name |-> Str("n"), server |-> server,
                       port |-> portNo, private_key |-> opt(a, "sk"),
                       public_key |-> opt(b, "pk"),
                       allowed_ips |-> Str("0.0.0.0/0")]

\* scheme prefixes of the branches that go through urlparse
UrlPrefixes == {"trojan://", "vless://", "ss://", "http://", "https://",
                "socks://", "socks5://", "hysteria://", "wireguard://"}

\* authority parts: complete, and with the server or the port missing, zero,
\* out of range or not a number
Authorities ==
    { <<>>,
      <<C("pw"), C("@"), C("h"), C(":"), C("443")>>,
      <<C("h"), C(":"), C("443")>>,
      <<C("pw"), C("@"), C("h")>>,
      <<C("pw"), C("@"), C(":"), C("443")>>,
      <<C("pw"), C("@"), C("h"), C(":"), C("0")>>,
      <<C("pw"), C("@"), C("h"), C(":"), C("70000")>>,
      <<C("pw"), C("@"), C("h"), C(":"), C("x")>>,
      <<C("h"), C(":"), C("443"), C("&"), C("peer"), C("="), C("n")>> }

Queries == {<<>>, <<C("?"), C("remarks"), C("="), C("n")>>}

\* fragments after an ss:// uri: a plain name and a percent-escaped one
Fragments == {<<C("#"), C("f")>>, <<C("#"), Pct("f g")>>}

\* what follows ss:// up to the query: userinfo@host:port, host:port, and the
\* Base64 of method:password@host:port
SsBodies ==
    { <<C("pw"), C("@"), C("h"), C(":"), C("443")>>,
      <<C("h"), C(":"), C("443")>>,
      B64(<<C("a"), C(":"), C("b"), C("@"), C("h"), C(":"), C("443")>>) }

\* a vmess object with only the given add, port and aid
VmessObject(add, portText, aid) ==
    [key \in VmessKeys |->
        CASE key = "add" -> add
          [] key = "port" -> portText
          [] key = "aid" -> aid
          [] OTHER -> <<>>]

\* payloads after vmess://, ss:// and ssr://: no Base64, Base64 of no JSON,
\* of a JSON array, of objects with the fields missing or malformed, and
\* Base64 of ss and ssr texts with and without their parts
Payloads ==
    { Str("x"),
      B64(Str("x")),
      B64(<<JsonArr>>),
      B64(<<Json(VmessObject(<<>>, <<>>, <<>>))>>),
      B64(<<Json(VmessObject(<<Str("h")>>, <<Str("443")>>, <<Str("0")>>))>>),
      B64(<<Json(VmessObject(<<Str("h")>>, <<Str("70000")>>, <<>>))>>),
      B64(<<Json(VmessObject(<<Str("h")>>, <<Str("x")>>, <<>>))>>),
      B64(<<Json(VmessObject(<<Str("h")>>, <<Str("443")>>, <<Str("x")>>))>>),
      B64(<<C("a"), C(":"), C("b"), C("@"), C("h"), C(":"), C("443")>>),
      B64(<<C("a"), C(":"), C("b"), C("@"), C("h"), C(":"), C("x")>>),
      B64(<<C("a"), C("@"), C("h"), C(":"), C("443")>>),
      B64(<<C("a"), C(":"), C("b"), C("@"), C("h")>>),
      B64(<<C("h"), C(":"), C("443")>>),
      B64(<<C("h"), C(":"), C("443"), C(":"), C("origin"), C(":"), C("rc4"),
            C(":"), C("plain"), C(":"), C("x")>>),
      B64(<<C("h"), C(":"), C("x"), C(":"), C("origin"), C(":"), C("rc4"),
            C(":"), C("plain"), C(":")>>),
      B64(<<C(":"), C("0"), C(":"), C("origin"), C(":"), C("rc4"),
            C(":"), C("plain"), C(":")>>) }

\* the values parse_v2ray_uri is called on: no str, '', a word, url-shaped
\* uris and Base64-shaped uris
IsSampleUri(u) ==
    \/ u = [str |-> FALSE, text |-> <<>>]
    \/ u = [str |-> TRUE, text |-> <<>>]
    \/ u = [str |-> TRUE, text |-> Str("foo")]
    \/ \E p \in UrlPrefixes, auth \in Authorities, q \in Queries :
            u = [str |-> TRUE, text |-> <<C(p)>> \o auth \o q]
    \/ \E p \in {"vmess://", "ss://", "ssr://"}, payload \in Payloads :
            u = [str |-> TRUE, text |-> <<C(p)>> \o payload]
    \/ \E body \in SsBodies, q \in Queries, f \in Fragments :
            u = [str |-> TRUE, text |-> <<C("ss://")>> \o body \o q \o f]

InitCodec ==
    /\ impl = "main"
    /\ k = 1
    /\ coreInstalled = FALSE
    /\ ProbeInit
    /\ SessionIdle
    /\ FetchIdle
    /\ ManagerIdle
    /\ AllocIdle
    /\ RetryIdle
    /\ ClockIdle
    /\ ConfigIdle
    /\ JsonIdle
    /\ ExtractIdle
    /\ PipeIdle
    /\ cOut = Pending
    /\ \/ /\ IsValidNode(cNode)
          /\ cUri = [str |-> FALSE, text |-> <<>>]
          /\ cPc = "encode"
       \/ /\ cNode = NoRecord
          /\ IsSampleUri(cUri)
          /\ cPc = "parse"

\* uri = node_to_v2ray_uri(node)
CodecEncode ==
    /\ cPc = "encode"
    /\ IF NodeToUri(cNode).tag = "uri"
       THEN /\ cUri' = [str |-> TRUE, text |-> NodeToUri(cNode).text]
            /\ cPc' = "parse"
       ELSE /\ cPc' = "notEncoded"
            /\ UNCHANGED cUri
    /\ UNCHANGED <<managerVars, allocVars, retryVars, clockVars, configVars, jsonVars, fetchVars, sessionVars, probeVars, extractVars, pipeVars, cNode, cOut>>

\* node = parse_v2ray_uri(uri)
CodecParse ==
    /\ cPc = "parse"
    /\ cOut' = ParseUri(cUri)
    /\ cPc' = IF cOut'.tag = "raise" THEN "raised" ELSE "done"
    /\ UNCHANGED <<managerVars, allocVars, retryVars, clockVars, configVars, jsonVars, fetchVars, sessionVars, probeVars, extractVars, pipeVars, cNode, cUri>>

NextCodec ==
    \/ CodecEncode
    \/ CodecParse

SpecCodec == InitCodec /\ [][NextCodec]_vars

\* C16: whatever value parse_v2ray_uri is called on (any scheme prefix,
\* malformed Base64, JSON, port or authority, or no str at all), the call
\* returns a node or None and does not raise into its caller.
C16_ParseReturnsNodeOrNone ==
    /\ cPc # "raised"
    /\ cPc = "done" =>
        /\ cOut.tag \in {"node", "None"}
        /\ cOut.tag = "node" <=> ParseBody(cUri).tag = "node"
        /\ cOut.tag = "node" => cOut.node.type \in EncodedKinds

\* a call whose body raised (a port that is no number, Base64 that does not
\* decode, a JSON array, a value that is no str) and that returned None
C16_Witness ==
    /\ cPc = "done"
    /\ cNode = NoRecord
    /\ ParseBody(cUri).tag = "raise"
    /\ cOut = GotNone

\* C17: a node returned by parse_v2ray_uri has a non-empty server and an
\* integer port in 1..65535; a uri without server, or whose port is not a
\* number, zero or out of range, gives None instead of a node.
C17_ReturnedNodeHasServerAndPort ==
    (cPc = "done" /\ cOut.tag = "node") =>
        /\ cOut.node.server # <<>>
        /\ cOut.node.port \in 1..65535

\* C18: for a valid node of every encoded kind, parsing the uri that
\* node_to_v2ray_uri wrote gives a node equal to the original on all the
\* fields of the kind.
C18_RoundTrip ==
    (cPc = "done" /\ cNode # NoRecord) => cOut = GotNode(cNode)

\* C31: the name of a node parsed from an ss:// uri is the unescaped fragment
\* whenever the uri has one, and the `remarks` parameter only when it has
\* none, in both sub-forms.
C31_SsNameFromFragmentFirst ==
    (/\ cPc = "done"
     /\ cNode = NoRecord
     /\ cUri.str
     /\ cUri.text # <<>>
     /\ cOut.tag = "node")
    => (cUri.text[1] = C("ss://") =>
            LET t == cUri.text
                at == Find(t, C("#"))
                q == UrlQuery(t)
            IN  IF at # 0
                THEN cOut.node.name = Unquote(After(t, at))
                ELSE QsHas(q, "remarks") =>
                        cOut.node.name = QsGet(q, "remarks", <<>>))

\* ---------------------------------------------------------------- pipeline
\* main(): gather_all_nodes, deduplicate_v2ray_nodes, _test_all_nodes_latency
\* and save_results. An entry of the gathered list is whatever extract_nodes
\* put there: a node parse_v2ray_uri built, or an element of the `proxies`
\* value of a YAML document, which parse_clash_yaml passes on as it is.

\* a str element, as `proxies: [foo]` gives
StrEntry == [str |-> Str("foo")]

IsDict(e) == ~Has(e, "str")

\* uris found by the Base64 and regex strategies: two with the same server
\* and port, one with another server, one without server
GatheredUris ==
    { <<C("trojan://"), C("pw"), C("@"), C("h"), C(":"), C("443"), C("?"),
        C("sni"), C("="), C("n")>>,
      <<C("trojan://"), C("q"), C("@"), C("h"), C(":"), C("443"), C("?"),
        C("sni"), C("="), C("m")>>,
      <<C("trojan://"), C("pw"), C("@"), C("g"), C(":"), C("443"), C("?"),
        C("sni"), C("="), C("n")>>,
      <<C("trojan://"), C("pw"), C("@"), C(":"), C("443"), C("?"),
        C("sni"), C("="), C("n")>> }

\* `node = parse_v2ray_uri(line); if node: nodes.append(node)`
UriEntries ==
    { ParseUri([str |-> TRUE, text |-> t]).node : t \in
        {x \in GatheredUris : ParseUri([str |-> TRUE, text |-> x]).tag = "node"} }

\* elements of a YAML proxies list: a vmess map without alterId, maps
\* without server, without port, without name, and a str
YamlEntries ==
    { [type |-> "vmess", name |-> Str("y"), server |-> Str("h"), port |-> 1,
       uuid |-> Str("id")],
      [type |-> "ss", name |-> Str("y"), port |-> 443, cipher |-> Str("rc4"),
       password |-> Str("pw")],
      [type |-> "ss", name |-> Str("y"), server |-> Str("h"),
       cipher |-> Str("rc4"), password |-> Str("pw")],
      [type |-> "trojan", server |-> Str("g"), port |-> 1,
       password |-> Str("pw")],
      StrEntry }

Entries == UriEntries \cup YamlEntries

\* all_nodes: up to MaxGathered entries
IsGathered(list) ==
    \E len \in 0..MaxGathered : \E l \in [1..len -> Entries] : list = l

\* ---- deduplicate_v2ray_nodes

\* node['server'] or node['port'] raises TypeError or KeyError
DedupRaises(ns) ==
    \E i \in DOMAIN ns :
        ~IsDict(ns[i]) \/ ~Has(ns[i], "server") \/ ~Has(ns[i], "port")

\* a key made of the server alone
KeyOf_ServerOnly(n) == n.server

\* key = f"{node['server']}:{node['port']}"
KeyOf(n) == n.server \o <<C(":")>> \o StrOf(n.port)

\* the loop of deduplicate_v2ray_nodes over the rest of the list
RECURSIVE DedupFrom(_, _, _)
DedupFrom(ns, seen, unique) ==
    IF ns = <<>> THEN unique
    ELSE IF KeyOf(Head(ns)) # <<>> /\ KeyOf(Head(ns)) \notin seen
         THEN DedupFrom(Tail(ns), seen \cup {KeyOf(Head(ns))},
                        Append(unique, Head(ns)))
    ELSE DedupFrom(Tail(ns), seen, unique)

\* a pass that drops one node with a key seen before and keeps the rest
RECURSIVE DropOne(_, _)
DropOne(ns, seen) ==
    IF ns = <<>> THEN <<>>
    ELSE IF KeyOf(Head(ns)) \in seen THEN Tail(ns)
    ELSE <<Head(ns)>> \o DropOne(Tail(ns), seen \cup {KeyOf(Head(ns))})

Dedup_DropsOneDuplicate(ns) == DropOne(ns, {})

\* deduplicate_v2ray_nodes(nodes), when it does not raise
Dedup(ns) == DedupFrom(ns, {}, <<>>)

\* ---- _test_all_nodes_latency, as far as the later stages see it

\* process_node goes on to _test_latency: `not node or 'name' not in node or
\* 'server' not in node` is false
PassesPrecheck(n) == Has(n, "name") /\ Has(n, "server")

\* the keys the outbound builder of a kind reads with node[...]
BuilderNeeds(kind) ==
    CASE kind = "vmess" -> {"server", "port", "uuid"}
      [] kind = "trojan" -> {"server", "port", "password"}
      [] kind = "vless" -> {"server", "port", "uuid"}
      [] kind = "ss" -> {"server", "port", "cipher"}
      [] OTHER -> {"server", "port"}

\* generate_v2ray_config returns a config for the node
Buildable(n) ==
    /\ Has(n, "type")
    /\ n.type \in BuilderKinds
    /\ BuilderNeeds(n.type) \subseteq DOMAIN n

\* node['name'] = f"{node['name']} [{latency}ms]"
Renamed(n, latency) ==
    [n EXCEPT !.name = @ \o <<C(" [")>> \o StrOf(latency) \o <<C("ms]")>>]

\* the elements of ns at the positions in idx, in list order
RECURSIVE Pick(_, _, _)
Pick(ns, idx, i) ==
    IF i > Len(ns) THEN <<>>
    ELSE (IF i \in idx THEN <<ns[i]>> ELSE <<>>) \o Pick(ns, idx, i + 1)

\* ---- save_results

\* the comprehension over node_to_v2ray_uri raises on some node
SaveRaises(ns) == \E i \in DOMAIN ns : NodeToUri(ns[i]).tag = "raise"

\* uris = [uri for n in nodes if (uri := node_to_v2ray_uri(n))]
RECURSIVE SavedUris(_)
SavedUris(ns) ==
    IF ns = <<>> THEN <<>>
    ELSE (IF NodeToUri(Head(ns)).tag = "uri"
          THEN <<NodeToUri(Head(ns)).text>> ELSE <<>>) \o SavedUris(Tail(ns))

\* Path.write_text: the file of that name holds the new content, whatever
\* it held before ("b64": the Base64 text, "raw": the newline-joined uris)
WriteText(files, name, form) ==
    {f \in files : f.name # name} \cup {[name |-> name, form |-> form]}

\* ---- actions of main()

InitPipeline ==
    /\ impl = "main"
    /\ k = 1
    /\ coreInstalled \in BOOLEAN
    /\ ProbeInit
    /\ SessionIdle
    /\ FetchIdle
    /\ ManagerIdle
    /\ AllocIdle
    /\ RetryIdle
    /\ ClockIdle
    /\ ConfigIdle
    /\ JsonIdle
    /\ ExtractIdle
    /\ CodecIdle
    /\ IsGathered(pList)
    /\ pUnique = <<>>
    /\ pTwice = <<>>
    /\ pProbed = <<>>
    /\ pValid = <<>>
    /\ pUris = <<>>
    /\ pFiles = {}
    /\ pPc = "gathered"

\* unique_nodes = utils.deduplicate_v2ray_nodes(all_nodes)
PipeDedup ==
    /\ pPc = "gathered"
    /\ IF DedupRaises(pList)
       THEN pPc' = "dedupRaised" /\ UNCHANGED pUnique
       ELSE pPc' = "unique" /\ pUnique' = Dedup(pList)
    /\ UNCHANGED <<managerVars, allocVars, retryVars, clockVars, configVars, jsonVars, fetchVars, sessionVars, probeVars, extractVars, codecVars, pList, pTwice, pProbed,
                   pValid, pUris, pFiles>>

\* valid_nodes = _test_all_nodes_latency(unique_nodes, 100): process_node is
\* called on every node; those that pass its precheck are probed, and of the
\* probed ones with a builder any may measure a latency within the limit when
\* a core is installed. The accepted nodes are taken in list order.
PipeValidate ==
    /\ pPc = "unique"
    /\ LET probedIdx == {i \in DOMAIN pUnique : PassesPrecheck(pUnique[i])}
           ableIdx == {i \in probedIdx : coreInstalled /\ Buildable(pUnique[i])}
       IN /\ pProbed' = Pick(pUnique, probedIdx, 1)
          /\ \E acc \in SUBSET ableIdx :
                pValid' = Pick([i \in DOMAIN pUnique |->
                                    Renamed(pUnique[i], 0)], acc, 1)
    /\ pPc' = "validated"
    /\ UNCHANGED <<managerVars, allocVars, retryVars, clockVars, configVars, jsonVars, fetchVars, sessionVars, probeVars, extractVars, codecVars, pList, pUnique, pTwice,
                   pUris, pFiles>>

\* utils.save_results(valid_nodes, "v2ray.txt"): the uris are joined, the
\* Base64 of the text is written to v2ray_txt, then the text itself is
\* written to v2ray_txt
PipeSave ==
    /\ pPc = "validated"
    /\ IF pValid = <<>>
       THEN pPc' = "nothingSaved" /\ UNCHANGED <<pUris, pFiles>>
       ELSE IF SaveRaises(pValid)
            THEN pPc' = "saveRaised" /\ UNCHANGED <<pUris, pFiles>>
       ELSE /\ pPc' = "saved"
            /\ pUris' = SavedUris(pValid)
            /\ pFiles' = WriteText(WriteText(pFiles, "v2ray.txt", "b64"),
                                   "v2ray.txt", "raw")
    /\ UNCHANGED <<managerVars, allocVars, retryVars, clockVars, configVars, jsonVars, fetchVars, sessionVars, probeVars, extractVars, codecVars, pList, pUnique, pTwice,
                   pProbed, pValid>>

NextPipeline ==
    \/ PipeDedup
    \/ PipeValidate
    \/ PipeSave

SpecPipeline == InitPipeline /\ [][NextPipeline]_vars

\* C12: every node that main() hands to a probe has a server, a port and a
\* name; entries without one of them are dropped before the validation
\* stage.
C12_ProbedNodeHasServerPortName ==
    \A i \in DOMAIN pProbed :
        /\ Has(pProbed[i], "server") /\ pProbed[i].server # <<>>
        /\ Has(pProbed[i], "port") /\ pProbed[i].port \in 1..65535
        /\ Has(pProbed[i], "name") /\ pProbed[i].name # <<>>

\* C13: deduplicate_v2ray_nodes returns a list for every list extract_nodes
\* can return, entries that are no map or have no server or port included;
\* main() does not stop on one bad entry.
C13_DedupNeverRaises == pPc # "dedupRaised"

\* C19: node_to_v2ray_uri returns a uri for every accepted node, so
\* save_results does not raise and writes one uri per accepted node.
C19_AcceptedNodesAreSaved ==
    /\ pPc # "saveRaised"
    /\ pPc = "saved" => Len(pUris) = Len(pValid)

\* C24: after save_results has written at least one uri, both the
\* newline-joined text and its Base64 copy are stored.
C24_RawAndBase64BothStored ==
    pPc = "saved" /\ pUris # <<>> =>
        /\ \E f \in pFiles : f.form = "raw"
        /\ \E f \in pFiles : f.form = "b64"

\* ---- deduplicate_v2ray_nodes on its own: applied to a gathered list, and
\* applied again to its own result

InitDedup ==
    /\ impl = "main"
    /\ k = 1
    /\ coreInstalled = FALSE
    /\ ProbeInit
    /\ SessionIdle
    /\ FetchIdle
    /\ ManagerIdle
    /\ AllocIdle
    /\ RetryIdle
    /\ ClockIdle
    /\ ConfigIdle
    /\ JsonIdle
    /\ ExtractIdle
    /\ CodecIdle
    /\ IsGathered(pList)
    /\ pUnique = <<>>
    /\ pTwice = <<>>
    /\ pProbed = <<>>
    /\ pValid = <<>>
    /\ pUris = <<>>
    /\ pFiles = {}
    /\ pPc = "gathered"

\* deduplicate_v2ray_nodes(unique_nodes)
DedupAgain ==
    /\ pPc = "unique"
    /\ IF DedupRaises(pUnique)
       THEN pPc' = "dedupRaised" /\ UNCHANGED pTwice
       ELSE pPc' = "twice" /\ pTwice' = Dedup(pUnique)
    /\ UNCHANGED <<managerVars, allocVars, retryVars, clockVars, configVars, jsonVars, fetchVars, sessionVars, probeVars, extractVars, codecVars, pList, pUnique, pProbed,
                   pValid, pUris, pFiles>>

NextDedup ==
    \/ PipeDedup
    \/ DedupAgain

SpecDedup == InitDedup /\ [][NextDedup]_vars

\* the (server, port) pair of a node
ServerPort(n) == <<n.server, n.port>>

\* the position of the first node of ns with the pair sp
FirstAt(ns, sp) ==
    CHOOSE i \in DOMAIN ns :
        ServerPort(ns[i]) = sp /\ \A j \in 1..(i - 1) : ServerPort(ns[j]) # sp

\* C14: the list deduplicate_v2ray_nodes returns holds every (server, port)
\* pair of its input exactly once; the node kept for a pair is the first
\* input node with that pair, whatever its other fields; the kept nodes stand
\* in the order of their first occurrence (so the result is a subsequence).
C14_FirstOccurrenceWins ==
    pPc \in {"unique", "twice"} =>
        /\ \A i \in DOMAIN pList : \E j \in DOMAIN pUnique :
                ServerPort(pUnique[j]) = ServerPort(pList[i])
        /\ \A i, j \in DOMAIN pUnique :
                ServerPort(pUnique[i]) = ServerPort(pUnique[j]) => i = j
        /\ \A j \in DOMAIN pUnique :
                /\ \E i \in DOMAIN pList :
                        ServerPort(pList[i]) = ServerPort(pUnique[j])
                /\ pUnique[j] = pList[FirstAt(pList, ServerPort(pUnique[j]))]
        /\ \A i, j \in DOMAIN pUnique :
                i < j => FirstAt(pList, ServerPort(pUnique[i]))
                            < FirstAt(pList, ServerPort(pUnique[j]))

\* three gathered nodes, the first and the third with the same server and
\* port but different other fields, the second with the same server and
\* another port: the first two are kept
C14_Witness ==
    /\ pPc = "unique"
    /\ Len(pList) = 3
    /\ ServerPort(pList[1]) = ServerPort(pList[3])
    /\ pList[1] # pList[3]
    /\ pList[1].server = pList[2].server
    /\ pList[1].port # pList[2].port
    /\ pUnique = <<pList[1], pList[2]>>

\* C15: deduplicating a deduplicated list changes nothing.
C15_DedupIdempotent == pPc = "twice" => pTwice = pUnique

\* a list with two duplicates of its first node, deduplicated twice
C15_Witness ==
    /\ pPc = "twice"
    /\ Len(pList) = 3
    /\ ServerPort(pList[2]) = ServerPort(pList[1])
    /\ ServerPort(pList[3]) = ServerPort(pList[1])
    /\ pUnique = <<pList[1]>>
    /\ pTwice = <<pList[1]>>

\* ---------------------------------------------- one launched core process
\* The request loop over TEST_URLS and the stop step, for one process from
\* its launch to the return of the code that stops it. `caller` is the place
\* that launched it: the probe of main, Tester or AsyncTester, or an adapter
\* (start_adapter ... stop_adapter), which issues no request of its own.

ProbeCallers == {"main", "tester", "async"}
AdapterCallers == {"xrayAdapter", "subsAdapter"}

\* what one GET through the local SOCKS port ends with: a response with
\* status 200, 204 or another one, or a request exception (the only outcome
\* once the core no longer listens)
Responses(p) ==
    IF p = "running" THEN {"200", "204", "status", "exception"}
    ELSE {"exception"}

\* The fault of a loop that gives up at the first failed URL.
AfterResponse_GivesUp(r, idx, n) ==
    IF r \in {"200", "204"} THEN "latency" ELSE "sentinel"

\* one turn of `for url in TEST_URLS`: return the elapsed time on 200/204,
\* go on to the next URL otherwise, return -1 after the last one
AfterResponse(r, idx, n) ==
    IF r \in {"200", "204"} THEN "latency"
    ELSE IF idx < n THEN "next" ELSE "sentinel"

\* the handler of the wait's timeout calls kill(): the probes do, the
\* adapters only log the exception
KillsOnTimeout(c) == c \in ProbeCallers

\* the core has been launched: a probe is about to request TEST_URLS[0], an
\* adapter's caller is about to call stop_adapter
InitSession ==
    /\ impl = "main"
    /\ k = 1
    /\ coreInstalled = TRUE
    /\ ProbeInit
    /\ FetchIdle
    /\ ManagerIdle
    /\ AllocIdle
    /\ RetryIdle
    /\ ClockIdle
    /\ ConfigIdle
    /\ JsonIdle
    /\ ExtractIdle
    /\ CodecIdle
    /\ PipeIdle
    /\ \/ /\ caller \in ProbeCallers
          /\ numUrls \in 1..MaxUrls
          /\ sessPc = "request"
          /\ urlPos = 1
       \/ /\ caller \in AdapterCallers
          /\ numUrls = 0
          /\ sessPc = "terminate"
          /\ urlPos = 0
    /\ coreProc = "running"
    /\ requested = <<>>
    /\ measured = <<>>
    /\ signals = <<>>

\* the core exits on its own (it rejects its config, or it crashes)
SessExit ==
    /\ coreProc = "running"
    /\ sessPc # "idle"
    /\ coreProc' = "exited"
    /\ UNCHANGED <<managerVars, allocVars, retryVars, clockVars, configVars, jsonVars, fetchVars, probeVars, extractVars, codecVars, pipeVars, caller,
                   numUrls, sessPc, urlPos, requested, measured, signals>>

\* one turn of the loop over TEST_URLS
SessRequest ==
    /\ sessPc = "request"
    /\ \E r \in Responses(coreProc) :
        /\ requested' = Append(requested, [url |-> urlPos, response |-> r])
        /\ LET step == AfterResponse(r, urlPos, numUrls)
           IN  IF step = "latency"
               THEN \E L \in LatencySamples :
                    /\ measured' = <<L>>
                    /\ sessPc' = "terminate"
                    /\ UNCHANGED urlPos
               ELSE IF step = "next"
               THEN /\ urlPos' = urlPos + 1
                    /\ UNCHANGED <<measured, sessPc>>
               ELSE /\ measured' = <<-1>>
                    /\ sessPc' = "terminate"
                    /\ UNCHANGED urlPos
    /\ UNCHANGED <<managerVars, allocVars, retryVars, clockVars, configVars, jsonVars, fetchVars, probeVars, extractVars, codecVars, pipeVars, caller,
                   numUrls, coreProc, signals>>

\* proc.terminate(): SIGTERM, unless the process is known to have exited
SessTerminate ==
    /\ sessPc = "terminate"
    /\ signals' = IF coreProc = "running" THEN Append(signals, "SIGTERM")
                  ELSE signals
    /\ sessPc' = "wait"
    /\ UNCHANGED <<managerVars, allocVars, retryVars, clockVars, configVars, jsonVars, fetchVars, probeVars, extractVars, codecVars, pipeVars, caller,
                   numUrls, coreProc, urlPos, requested, measured>>

\* proc.wait(timeout=5): returns when the process has exited, raises
\* TimeoutExpired when it has not by then
SessWait ==
    /\ sessPc = "wait"
    /\ IF coreProc = "exited"
       THEN /\ sessPc' = "returned"
            /\ UNCHANGED coreProc
       ELSE \E exitsInTime \in BOOLEAN :
            IF exitsInTime
            THEN /\ coreProc' = "exited"
                 /\ sessPc' = "returned"
            ELSE /\ sessPc' = IF KillsOnTimeout(caller) THEN "kill"
                              ELSE "returned"
                 /\ UNCHANGED coreProc
    /\ UNCHANGED <<managerVars, allocVars, retryVars, clockVars, configVars, jsonVars, fetchVars, probeVars, extractVars, codecVars, pipeVars, caller,
                   numUrls, urlPos, requested, measured, signals>>

\* proc.kill() in the handler of the timeout: SIGKILL ends the process
SessKill ==
    /\ sessPc = "kill"
    /\ signals' = IF coreProc = "running" THEN Append(signals, "SIGKILL")
                  ELSE signals
    /\ coreProc' = "exited"
    /\ sessPc' = "returned"
    /\ UNCHANGED <<managerVars, allocVars, retryVars, clockVars, configVars, jsonVars, fetchVars, probeVars, extractVars, codecVars, pipeVars, caller,
                   numUrls, urlPos, requested, measured>>

NextSession ==
    \/ SessExit
    \/ SessRequest
    \/ SessTerminate
    \/ SessWait
    \/ SessKill

SpecSession == InitSession /\ [][NextSession]_vars

\* C27: the URLs are requested in list order, each at most once; a 200 or 204
\* ends the loop with a measured latency and nothing is requested after it;
\* an exception or another status leads to the next URL; when every URL has
\* failed the probe returns -1.
C27_UrlsInOrderFirstSuccessWins ==
    caller \in ProbeCallers =>
        /\ Len(requested) <= numUrls
        /\ \A a \in DOMAIN requested :
            /\ requested[a].url = a
            /\ requested[a].response \in {"200", "204"} =>
                /\ a = Len(requested)
                /\ measured # <<>>
                /\ measured[1] >= 0
                /\ sessPc # "request"
            /\ requested[a].response \in {"status", "exception"} =>
                \/ a < Len(requested)
                \/ a < numUrls /\ sessPc = "request" /\ urlPos = a + 1
                \/ a = numUrls /\ measured = <<-1>> /\ sessPc # "request"
        /\ sessPc = "request" => measured = <<>> /\ urlPos = Len(requested) + 1
        /\ sessPc # "request" => measured # <<>>
        /\ measured = <<-1>> =>
            /\ Len(requested) = numUrls
            /\ \A a \in DOMAIN requested :
                requested[a].response \in {"status", "exception"}

\* the first URL raised, the second answered 204, the third was never asked
C27_Witness ==
    /\ numUrls = 3
    /\ Len(requested) = 2
    /\ requested[1] = [url |-> 1, response |-> "exception"]
    /\ requested[2] = [url |-> 2, response |-> "204"]
    /\ measured # <<>>
    /\ measured[1] >= 0
    /\ sessPc = "returned"

\* C28: the stop step sends SIGTERM first and SIGKILL only after the wait
\* has timed out, and when it has returned the process is not running.
C28_StoppedProcessNotRunning ==
    /\ \A a \in DOMAIN signals :
        signals[a] = "SIGKILL" => a = 2 /\ signals[1] = "SIGTERM"
    /\ sessPc = "returned" => coreProc = "exited"

\* ------------------------------------------------ fetching subscriptions
\* gather_all_nodes (main), Subscriber.get_subscription_nodes (both on a
\* thread pool, collected as the futures complete) and
\* AsyncSubscriber.get_subscription_nodes (tasks behind a semaphore, collected
\* by asyncio.gather in the order of the links).

Fetchers == {"gather", "subscriber", "asyncSubscriber"}

\* how the fetch of one link ends: a request exception, a status that
\* raise_for_status() rejects, or a text that extract_nodes is run on
FetchKinds == {"unreachable", "status", "ok"}

\* Settings.THREAD_POOL_SIZE = min(100, os.cpu_count() * 3)
ThreadPoolSize(c) == IF 100 < c * 3 THEN 100 ELSE c * 3

\* what bounds the fetches in flight: max_workers of the thread pool (None:
\* THREAD_POOL_SIZE), or self._sem of AsyncSubscriber
FetchLimit ==
    IF fetcher = "asyncSubscriber" THEN SemaphoreSize
    ELSE ThreadPoolSize(cpus)

Fetching == {s \in Subs : subPc[s] = "fetching"}

\* the list _fetch_and_extract returned for link s: the extracted nodes, or
\* [] from its `except Exception`
Returned(s) ==
    IF subKind[s] = "ok" THEN [j \in 1..subFound[s] |-> <<s, j>>] ELSE <<>>

\* `for url, res in zip(urls, results): all_nodes.extend(res)` from link s on
RECURSIVE Gathered(_)
Gathered(s) == IF s > NumSubs THEN <<>> ELSE Returned(s) \o Gathered(s + 1)

\* The fault of leaving the collecting loop after the first future.
AllFetched_FirstCollected == \E s \in Subs : subPc[s] = "collected"

\* the as_completed loop is exhausted
AllFetched == \A s \in Subs : subPc[s] = "collected"

\* NumSubs links have been submitted
InitFetch ==
    /\ impl = "main"
    /\ k = 1
    /\ coreInstalled = FALSE
    /\ ProbeInit
    /\ SessionIdle
    /\ ManagerIdle
    /\ AllocIdle
    /\ RetryIdle
    /\ ClockIdle
    /\ ConfigIdle
    /\ JsonIdle
    /\ ExtractIdle
    /\ CodecIdle
    /\ PipeIdle
    /\ fetcher \in Fetchers
    /\ cpus \in {1, MaxCpus}
    /\ subPc = [s \in Subs |-> "queued"]
    /\ subKind = [s \in Subs |-> "none"]
    /\ subFound = [s \in Subs |-> 0]
    /\ allNodes = <<>>
    /\ fetchOrch = "running"

\* a worker takes the next link / the next task enters `async with self._sem`
FetchStart(s) ==
    /\ subPc[s] = "queued"
    /\ \A t \in Subs : t < s => subPc[t] # "queued"
    /\ Cardinality(Fetching) < FetchLimit
    /\ subPc' = [subPc EXCEPT ![s] = "fetching"]
    /\ UNCHANGED <<managerVars, allocVars, retryVars, clockVars, configVars, jsonVars, probeVars, sessionVars, extractVars, codecVars, pipeVars,
                   fetcher, cpus, subKind, subFound, allNodes, fetchOrch>>

\* _fetch_and_extract returns: the GET, raise_for_status and extract_nodes
\* are inside its try. A text that was fetched holds no node or MaxItems.
FetchFinish(s) ==
    /\ subPc[s] = "fetching"
    /\ \E kd \in FetchKinds, n \in {0, MaxItems} :
        /\ kd # "ok" => n = 0
        /\ subKind' = [subKind EXCEPT ![s] = kd]
        /\ subFound' = [subFound EXCEPT ![s] = n]
    /\ subPc' = [subPc EXCEPT ![s] = "done"]
    /\ UNCHANGED <<managerVars, allocVars, retryVars, clockVars, configVars, jsonVars, probeVars, sessionVars, extractVars, codecVars, pipeVars,
                   fetcher, cpus, allNodes, fetchOrch>>

\* one turn of `for future in as_completed(future_to_link)`
FetchCollect(s) ==
    /\ fetcher # "asyncSubscriber"
    /\ fetchOrch = "running"
    /\ subPc[s] = "done"
    /\ subPc' = [subPc EXCEPT ![s] = "collected"]
    /\ allNodes' = allNodes \o Returned(s)
    /\ UNCHANGED <<managerVars, allocVars, retryVars, clockVars, configVars, jsonVars, probeVars, sessionVars, extractVars, codecVars, pipeVars,
                   fetcher, cpus, subKind, subFound, fetchOrch>>

\* the thread-pool versions return all_nodes
FetchReturn ==
    /\ fetcher # "asyncSubscriber"
    /\ fetchOrch = "running"
    /\ AllFetched
    /\ fetchOrch' = "returned"
    /\ UNCHANGED <<managerVars, allocVars, retryVars, clockVars, configVars, jsonVars, probeVars, sessionVars, extractVars, codecVars, pipeVars,
                   fetcher, cpus, subPc, subKind, subFound, allNodes>>

\* asyncio.gather has every result; they are merged in the order of the
\* links and all_nodes is returned
FetchGather ==
    /\ fetcher = "asyncSubscriber"
    /\ fetchOrch = "running"
    /\ \A s \in Subs : subPc[s] = "done"
    /\ subPc' = [s \in Subs |-> "collected"]
    /\ allNodes' = Gathered(1)
    /\ fetchOrch' = "returned"
    /\ UNCHANGED <<managerVars, allocVars, retryVars, clockVars, configVars, jsonVars, probeVars, sessionVars, extractVars, codecVars, pipeVars,
                   fetcher, cpus, subKind, subFound>>

NextFetch ==
    \/ \E s \in Subs : FetchStart(s)
    \/ \E s \in Subs : FetchFinish(s)
    \/ \E s \in Subs : FetchCollect(s)
    \/ FetchReturn
    \/ FetchGather

SpecFetch == InitFetch /\ [][NextFetch]_vars

C25_AsyncFetchesWithinPoolSize ==
    fetcher = "asyncSubscriber" => Cardinality(Fetching) <= ThreadPoolSize(cpus)

\* ------------------------------------------------- parse_single_json_node

\* The elements of a JSON array: which keys the dict has, whether int() takes
\* the value of server_port and port ("num") or raises on it ("bad"), and the
\* value of `type` ("nonstr": a value that is no str); and one element that is
\* no dict at all.
JsonItems ==
    [dict : {TRUE}, server : BOOLEAN, server_port : {"absent", "num", "bad"},
     method : BOOLEAN, password : BOOLEAN, add : BOOLEAN,
     port : {"absent", "num", "bad"}, id : BOOLEAN,
     type : {"absent", "trojan", "ss", "other", "nonstr"}]
    \cup
    {[dict |-> FALSE, server |-> FALSE, server_port |-> "absent",
      method |-> FALSE, password |-> FALSE, add |-> FALSE, port |-> "absent",
      id |-> FALSE, type |-> "absent"]}

\* the four patterns, in the order of the if/elif chain
JsonPatterns == <<"ss", "vmess", "trojan", "clash">>

\* the condition of the branch of pattern p is true of the item
Matches(p, it) ==
    CASE p = "ss" -> it.server /\ it.server_port # "absent" /\ it.method /\ it.password
      [] p = "vmess" -> it.add /\ it.port # "absent" /\ it.id
      [] p = "trojan" -> it.server /\ it.port # "absent" /\ it.password /\ it.type = "trojan"
      [] p = "clash" -> it.type # "absent" /\ it.server /\ it.port # "absent"

\* evaluating the Trojan condition raises: ''.lower() is reached on a value of
\* `type` that is no str
TrojanConditionRaises(it) ==
    it.server /\ it.port # "absent" /\ it.password /\ it.type = "nonstr"

\* the body of the branch of pattern p: the node it builds (its type and its
\* keys), or None when building raised inside the branch's try
Decode(p, it) ==
    CASE p = "ss" ->
            IF it.server_port = "bad" THEN GotNone
            ELSE GotNode([type |-> "ss",
                          keys |-> {"type", "name", "server", "port", "cipher",
                                    "password", "plugin", "plugin_opts"}])
      [] p = "vmess" ->
            IF it.port = "bad" THEN GotNone
            ELSE GotNode([type |-> "vmess",
                          keys |-> {"type", "name", "server", "port", "uuid",
                                    "alterId", "cipher", "tls", "network",
                                    "path", "host"}])
      [] p = "trojan" ->
            IF it.port = "bad" THEN GotNone
            ELSE GotNode([type |-> "trojan",
                          keys |-> {"type", "name", "server", "port",
                                    "password", "sni"}])
      [] p = "clash" ->
            IF it.type \notin {"ss", "trojan"} \/ it.port = "bad" THEN GotNone
            ELSE GotNode([type |-> it.type,
                          keys |-> {"type", "name", "server", "port", "password"}
                                   \cup (IF it.type = "ss" THEN {"cipher"}
                                         ELSE {"sni"})])

ParseSingleJsonNode_VmessFirst(it) ==
    IF ~it.dict THEN GotNone
    ELSE IF Matches("vmess", it) THEN Decode("vmess", it)
    ELSE IF Matches("ss", it) THEN Decode("ss", it)
    ELSE IF TrojanConditionRaises(it) THEN Raised
    ELSE IF Matches("trojan", it) THEN Decode("trojan", it)
    ELSE IF Matches("clash", it) THEN Decode("clash", it)
    ELSE GotNone

\* parse_single_json_node(item)
ParseSingleJsonNode(it) ==
    IF ~it.dict THEN GotNone
    ELSE IF Matches("ss", it) THEN Decode("ss", it)
    ELSE IF Matches("vmess", it) THEN Decode("vmess", it)
    ELSE IF TrojanConditionRaises(it) THEN Raised
    ELSE IF Matches("trojan", it) THEN Decode("trojan", it)
    ELSE IF Matches("clash", it) THEN Decode("clash", it)
    ELSE GotNone

\* parse_single_json_node is about to be called on one element
InitJson ==
    /\ impl = "main"
    /\ k = 1
    /\ coreInstalled = FALSE
    /\ ProbeInit
    /\ SessionIdle
    /\ FetchIdle
    /\ ManagerIdle
    /\ AllocIdle
    /\ RetryIdle
    /\ ClockIdle
    /\ ConfigIdle
    /\ ExtractIdle
    /\ CodecIdle
    /\ PipeIdle
    /\ jItem \in JsonItems
    /\ jOut = Pending
    /\ jPc = "call"

\* node = parse_single_json_node(item)
JsonCall ==
    /\ jPc = "call"
    /\ jOut' = ParseSingleJsonNode(jItem)
    /\ jPc' = IF jOut'.tag = "raise" THEN "raised" ELSE "done"
    /\ UNCHANGED <<managerVars, allocVars, retryVars, clockVars, configVars, fetchVars, sessionVars, probeVars, extractVars, codecVars, pipeVars, jItem>>

NextJson ==
    \/ JsonCall

SpecJson == InitJson /\ [][NextJson]_vars

\* C33: the patterns are tried in the order Shadowsocks, VMess, Trojan,
\* Clash-style. The first pattern whose condition holds decides the result
\* alone, a node or None when it fails to build one; no later pattern is
\* tried, and no later condition is evaluated (the Trojan condition, which
\* raises on a `type` that is no str, is reached only when neither Shadowsocks
\* nor VMess matched).
C33_EarliestPatternDecides ==
    jPc \in {"done", "raised"} =>
        \A i \in DOMAIN JsonPatterns :
            (/\ jItem.dict
             /\ Matches(JsonPatterns[i], jItem)
             /\ \A j \in 1..(i - 1) : ~Matches(JsonPatterns[j], jItem))
            => jOut = IF i = 4 /\ TrojanConditionRaises(jItem) THEN Raised
                      ELSE Decode(JsonPatterns[i], jItem)

\* an element that matches the Shadowsocks, VMess and Clash patterns, whose
\* `type` would make the Trojan condition raise and whose server_port is no
\* number: the Shadowsocks branch failed and None was returned
C33_Witness ==
    /\ jPc = "done"
    /\ Matches("ss", jItem)
    /\ Matches("vmess", jItem)
    /\ Matches("clash", jItem)
    /\ TrojanConditionRaises(jItem)
    /\ jItem.server_port = "bad"
    /\ jItem.port = "num"
    /\ jOut = GotNone

\* --------------------------------------------------- generate_v2ray_config

\* the nodes generate_v2ray_config is called on: every key its builder reads
\* with [] is present; tls, network and headerType are absent or set
ConfigNodes ==
    [type : BuilderKinds \cup {"hysteria"},
     tls : {"absent", "false", "true"},
     network : {"absent", "tcp", "ws", "grpc", "h2", "quic"},
     headerType : {"absent", "http"}]

\* the key of streamSettings that carries the settings of a transport
ModeSetting(mode) ==
    CASE mode = "ws" -> "wsSettings"
      [] mode = "grpc" -> "grpcSettings"
      [] mode = "h2" -> "httpSettings"
      [] mode = "quic" -> "quicSettings"
      [] mode = "tcp" -> "tcpSettings"

\* the node's network (and, for tcp, its headerType) asks for the transport
Indicates(n, mode) ==
    /\ n.network = mode
    /\ mode = "tcp" => n.headerType = "http"

\* an outbound with streamSettings of the given security and settings keys
Stream(sec, keys) == [tag |-> "config", stream |-> TRUE, security |-> sec, settings |-> keys]

\* an outbound without streamSettings
NoStream == [tag |-> "config", stream |-> FALSE, security |-> "absent", settings |-> {}]

\* the transports among `modes` the node asks for, as settings keys
ModeKeys(n, modes) == {ModeSetting(m) : m \in {x \in modes : Indicates(n, x)}}

\* "tlsSettings" when the node's tls is truthy
TlsKeys(n) == IF n.tls = "true" THEN {"tlsSettings"} ELSE {}

\* "tls" if node.get('tls', False) else "none"
Security(n) == IF n.tls = "true" THEN "tls" ELSE "none"

\* generate_v2ray_config of main.py
MainGenerateConfig(n) ==
    CASE n.type = "vmess" ->
            Stream(Security(n), ModeKeys(n, {"ws", "h2", "quic", "grpc", "tcp"}) \cup TlsKeys(n))
      [] n.type = "trojan" ->
            Stream("tls", {"tlsSettings"} \cup ModeKeys(n, {"ws"}))
      [] n.type = "vless" ->
            Stream(Security(n), ModeKeys(n, {"ws", "grpc"}) \cup TlsKeys(n))
      [] n.type \in {"ss", "socks", "http", "https"} -> NoStream
      [] OTHER -> [tag |-> "None"]

\* generate_v2ray_config of tester.py: _common_stream_settings for vmess,
\* trojan and vless
TesterGenerateConfig(n) ==
    CASE n.type \in {"vmess", "trojan", "vless"} ->
            Stream(Security(n), TlsKeys(n) \cup ModeKeys(n, {"ws", "grpc", "h2", "quic", "tcp"}))
      [] n.type \in {"ss", "socks", "http", "https"} -> NoStream
      [] OTHER -> [tag |-> "None"]

\* generate_v2ray_config is about to be called on a node
InitConfig ==
    /\ impl = "main"
    /\ k = 1
    /\ coreInstalled = FALSE
    /\ ProbeInit
    /\ SessionIdle
    /\ FetchIdle
    /\ ManagerIdle
    /\ AllocIdle
    /\ RetryIdle
    /\ ClockIdle
    /\ JsonIdle
    /\ ExtractIdle
    /\ CodecIdle
    /\ PipeIdle
    /\ gImpl \in {"main", "tester"}
    /\ gNode \in ConfigNodes
    /\ gOut = [tag |-> "pending"]
    /\ gPc = "call"

\* config = generate_v2ray_config(node, port)
ConfigCall ==
    /\ gPc = "call"
    /\ gOut' = IF gImpl = "main" THEN MainGenerateConfig(gNode)
               ELSE TesterGenerateConfig(gNode)
    /\ gPc' = "done"
    /\ UNCHANGED <<managerVars, allocVars, retryVars, clockVars, jsonVars, fetchVars, sessionVars, probeVars, extractVars, codecVars, pipeVars, gImpl, gNode>>

NextConfig ==
    \/ ConfigCall

SpecConfig == InitConfig /\ [][NextConfig]_vars

\* C32: in both implementations and for every kind with a builder, the
\* outbound has security "tls" or tlsSettings only when the node's tls flag is
\* true, and has the settings of a transport (ws, grpc, h2, quic, tcp with
\* http obfuscation) only when the node's network asks for that transport.
C32_TlsAndTransportOnlyWhenAsked ==
    (gPc = "done" /\ gOut.tag = "config") =>
        /\ (gOut.security = "tls" \/ "tlsSettings" \in gOut.settings)
                => gNode.tls = "true"
        /\ \A mode \in {"ws", "grpc", "h2", "quic", "tcp"} :
                ModeSetting(mode) \in gOut.settings => Indicates(gNode, mode)

\* ------------------------------------------------------- the latency clock

\* the core of a probe has just been launched (Popen has returned)
InitClock ==
    /\ impl = "main"
    /\ k = 1
    /\ coreInstalled = TRUE
    /\ ProbeInit
    /\ SessionIdle
    /\ FetchIdle
    /\ ManagerIdle
    /\ AllocIdle
    /\ RetryIdle
    /\ ConfigIdle
    /\ JsonIdle
    /\ ExtractIdle
    /\ CodecIdle
    /\ PipeIdle
    /\ tCaller \in ProbeCallers
    /\ tUrls \in 1..MaxUrls
    /\ tPc = "launched"
    /\ tNow = 0
    /\ tStart = <<>>
    /\ tUrl = 0
    /\ tLat = <<>>

\* the wait for the core to be ready: main.py sleeps ReadinessSleep seconds;
\* Tester and AsyncTester only poll the process, which takes no time, and
\* return -1 when it has exited
ClockReady ==
    /\ tPc = "launched"
    /\ IF tCaller = "main"
       THEN /\ tNow' = tNow + ReadinessSleep
            /\ tPc' = "start"
            /\ UNCHANGED tLat
       ELSE \E exited \in BOOLEAN :
            /\ tPc' = IF exited THEN "returned" ELSE "start"
            /\ tLat' = IF exited THEN <<-1>> ELSE tLat
            /\ UNCHANGED tNow
    /\ UNCHANGED <<managerVars, allocVars, retryVars, configVars, jsonVars, fetchVars, sessionVars, probeVars, extractVars, codecVars, pipeVars,
                   tCaller, tUrls, tStart, tUrl>>

\* start_time = time.time() / start = time.perf_counter()
ClockStart ==
    /\ tPc = "start"
    /\ tStart' = <<tNow>>
    /\ tUrl' = 1
    /\ tPc' = "request"
    /\ UNCHANGED <<managerVars, allocVars, retryVars, configVars, jsonVars, fetchVars, sessionVars, probeVars, extractVars, codecVars, pipeVars,
                   tCaller, tUrls, tNow, tLat>>

\* one turn of the loop over TEST_URLS: the request takes d seconds; on 200 or
\* 204 the probe returns the time since the start reading, in milliseconds
ClockRequest ==
    /\ tPc = "request"
    /\ \E d \in 0..MaxRequestTime, r \in {"200", "204", "status", "exception"} :
        /\ tNow' = tNow + d
        /\ LET step == AfterResponse(r, tUrl, tUrls)
           IN  IF step = "latency"
               THEN /\ tLat' = <<(tNow' - tStart[1]) * MsPerSecond>>
                    /\ tPc' = "returned"
                    /\ UNCHANGED tUrl
               ELSE IF step = "next"
               THEN /\ tUrl' = tUrl + 1
                    /\ UNCHANGED <<tLat, tPc>>
               ELSE /\ tLat' = <<-1>>
                    /\ tPc' = "returned"
                    /\ UNCHANGED tUrl
    /\ UNCHANGED <<managerVars, allocVars, retryVars, configVars, jsonVars, fetchVars, sessionVars, probeVars, extractVars, codecVars, pipeVars,
                   tCaller, tUrls, tStart>>

NextClock ==
    \/ ClockReady
    \/ ClockStart
    \/ ClockRequest

SpecClock == InitClock /\ [][NextClock]_vars

\* C34: the clock is started just before the wait for the core to be ready
\* and stopped at the first 200/204 response: a measured latency is the whole
\* time from the launch of the core to that response, the readiness wait and
\* every URL attempt included.
C34_LatencyCoversReadinessWait ==
    (tPc = "returned" /\ tLat # <<>>) =>
        (tLat[1] >= 0 => tLat[1] = tNow * MsPerSecond)

\* ------------------------------------------------------ retry, retry_async

\* how one invocation of the wrapped function ends: a result retry_condition
\* rejects ("accepted": the wrapper returns it), a result retry_condition
\* asks to retry on, an exception of a class in `exceptions`, another one
CallOutcomes == {"accepted", "retryResult", "caught", "otherException"}

AfterLoop_ReturnsNone(last) == [tag |-> "None"]

\* after the for loop: raise last_exc if one was caught, else return None
AfterLoop(last) ==
    IF last # <<>> THEN [tag |-> "raise", of |-> last[1]]
    ELSE [tag |-> "None"]

\* a wrapped function is about to be called through the wrapper
InitRetry ==
    /\ impl = "main"
    /\ k = 1
    /\ coreInstalled = FALSE
    /\ ProbeInit
    /\ SessionIdle
    /\ FetchIdle
    /\ ManagerIdle
    /\ AllocIdle
    /\ ClockIdle
    /\ ConfigIdle
    /\ JsonIdle
    /\ ExtractIdle
    /\ CodecIdle
    /\ PipeIdle
    /\ rImpl \in {"retry", "retry_async"}
    /\ rRetries \in 0..MaxRetries
    /\ rAttempt = 0
    /\ rLog = <<>>
    /\ rSleeps = 0
    /\ rLastExc = <<>>
    /\ rOut = [tag |-> "pending"]
    /\ rPc = "enter"

\* wrapper(): last_exc = None, then the for loop is entered; with retries < 1
\* its body never runs
RetryEnter ==
    /\ rPc = "enter"
    /\ IF 1 <= rRetries
       THEN /\ rAttempt' = 1
            /\ rPc' = "call"
            /\ UNCHANGED rOut
       ELSE /\ rOut' = AfterLoop(rLastExc)
            /\ rPc' = "ended"
            /\ UNCHANGED rAttempt
    /\ UNCHANGED <<managerVars, allocVars, clockVars, configVars, jsonVars, fetchVars, sessionVars, probeVars, extractVars, codecVars,
                   pipeVars, rImpl, rRetries, rLog, rSleeps, rLastExc>>

\* the body of the loop up to the sleep: the wrapped function is invoked;
\* an accepted result is returned, an exception outside `exceptions` leaves
\* the wrapper, a caught one is kept in last_exc; after the last attempt the
\* loop ends
RetryCall ==
    /\ rPc = "call"
    /\ \E o \in CallOutcomes :
        /\ rLog' = Append(rLog, o)
        /\ rLastExc' = IF o = "caught" THEN <<rAttempt>> ELSE rLastExc
        /\ IF o = "accepted"
           THEN /\ rOut' = [tag |-> "result", of |-> rAttempt]
                /\ rPc' = "ended"
           ELSE IF o = "otherException"
           THEN /\ rOut' = [tag |-> "raise", of |-> rAttempt]
                /\ rPc' = "ended"
           ELSE IF rAttempt < rRetries
           THEN /\ rPc' = "sleep"
                /\ UNCHANGED rOut
           ELSE /\ rOut' = AfterLoop(rLastExc')
                /\ rPc' = "ended"
    /\ UNCHANGED <<managerVars, allocVars, clockVars, configVars, jsonVars, fetchVars, sessionVars, probeVars, extractVars, codecVars,
                   pipeVars, rImpl, rRetries, rAttempt, rSleeps>>

\* time.sleep(delay) / await asyncio.sleep(delay), then the next attempt
RetrySleep ==
    /\ rPc = "sleep"
    /\ rSleeps' = rSleeps + 1
    /\ rAttempt' = rAttempt + 1
    /\ rPc' = "call"
    /\ UNCHANGED <<managerVars, allocVars, clockVars, configVars, jsonVars, fetchVars, sessionVars, probeVars, extractVars, codecVars,
                   pipeVars, rImpl, rRetries, rLog, rLastExc, rOut>>

NextRetry ==
    \/ RetryEnter
    \/ RetryCall
    \/ RetrySleep

SpecRetry == InitRetry /\ [][NextRetry]_vars

\* C35: with retries = n the wrapped function is invoked at most n times; the
\* first accepted result is returned and nothing is invoked after it; the
\* wrapper waits only between two attempts, never after the last; an
\* exception outside `exceptions` leaves the wrapper at once; when all n
\* attempts are used up the wrapper raises the last caught exception if any
\* attempt raised one (even if a later attempt returned normally) and returns
\* None otherwise.
C35_RetryContract ==
    LET calls == Len(rLog)
        caughtAt == {a \in DOMAIN rLog : rLog[a] = "caught"}
        lastCaught == CHOOSE a \in caughtAt : \A b \in caughtAt : b <= a
    IN  /\ calls <= rRetries
        /\ \A a \in DOMAIN rLog :
            /\ rLog[a] = "accepted" =>
                a = calls /\ rPc = "ended" /\ rOut = [tag |-> "result", of |-> a]
            /\ rLog[a] = "otherException" =>
                a = calls /\ rPc = "ended" /\ rOut = [tag |-> "raise", of |-> a]
            /\ rLog[a] \in {"retryResult", "caught"} =>
                \/ a < calls
                \/ a < rRetries /\ rPc \in {"sleep", "call"}
                \/ a = rRetries /\ rPc = "ended"
        /\ rPc = "sleep" => rSleeps = calls - 1
        /\ rPc = "call" => rSleeps = calls /\ rAttempt = calls + 1
        /\ rPc = "ended" => rSleeps = IF calls = 0 THEN 0 ELSE calls - 1
        /\ (/\ rPc = "ended"
            /\ \A a \in DOMAIN rLog : rLog[a] \in {"retryResult", "caught"})
           => /\ calls = rRetries
              /\ rOut = IF caughtAt # {} THEN [tag |-> "raise", of |-> lastCaught]
                        ELSE [tag |-> "None"]

\* three attempts: the first raised a caught exception, the two later ones
\* returned results to retry on; the wrapper waited twice and raised the
\* exception of the first attempt
C35_Witness ==
    /\ rRetries = 3
    /\ rLog = <<"caught", "retryResult", "retryResult">>
    /\ rSleeps = 2
    /\ rPc = "ended"
    /\ rOut = [tag |-> "raise", of |-> 1]

\* ----------------------------------------------------- find_available_port

\* the values random.randint(start, end) is followed on: both ends of the
\* range and NumPorts ports next to its start
SamplePorts == {PortStart, PortEnd} \cup {PortStart + i : i \in 1..NumPorts}

\* at least one port of the range can be bound
SomeBindable(busy) == busy # SamplePorts

AfterBind_Raises(bound) == IF bound THEN "returned" ELSE "raised"

\* `return port` after a bind that succeeded, `continue` after OSError
AfterBind(bound) == IF bound THEN "returned" ELSE "loop"

\* find_available_port is called while the ports of aBusy are taken
InitAlloc ==
    /\ impl = "main"
    /\ k = 1
    /\ coreInstalled = FALSE
    /\ ProbeInit
    /\ SessionIdle
    /\ FetchIdle
    /\ ManagerIdle
    /\ RetryIdle
    /\ ClockIdle
    /\ ConfigIdle
    /\ JsonIdle
    /\ ExtractIdle
    /\ CodecIdle
    /\ PipeIdle
    /\ aImpl \in {"main", "tester"}
    /\ aBusy \in SUBSET SamplePorts
    /\ SomeBindable(aBusy)
    /\ aPc = "loop"
    /\ aPort = 0
    /\ aSock = "none"
    /\ aAttempts = 0

\* one turn of `while True` that draws p: a socket is created, bind is tried
\* on 127.0.0.1:p, and the socket is closed on both ways out (the with block
\* of tester.py, sock.close() before return and in except of main.py)
AllocTry(p) ==
    /\ aPc = "loop"
    /\ LET bound == p \notin aBusy
       IN  /\ aPc' = AfterBind(bound)
           /\ aPort' = IF bound THEN p ELSE aPort
           /\ aAttempts' = IF bound \/ aAttempts = MaxAttempts THEN aAttempts
                           ELSE aAttempts + 1
    /\ aSock' = "closed"
    /\ UNCHANGED <<managerVars, retryVars, clockVars, configVars, jsonVars, fetchVars, sessionVars, probeVars, extractVars,
                   codecVars, pipeVars, aImpl, aBusy>>

\* a turn that draws any port of the range
AllocAttempt == \E p \in SamplePorts : AllocTry(p)

\* a turn that draws a port that can be bound
AllocDrawsBindable == \E p \in SamplePorts \ aBusy : AllocTry(p)

\* other processes take and release ports while the allocator loops; some
\* port of the range stays bindable
PortsChange ==
    /\ aPc = "loop"
    /\ \E busy \in SUBSET SamplePorts :
        /\ busy # aBusy
        /\ SomeBindable(busy)
        /\ aBusy' = busy
    /\ UNCHANGED <<managerVars, retryVars, clockVars, configVars, jsonVars, fetchVars, sessionVars, probeVars, extractVars,
                   codecVars, pipeVars, aImpl, aPc, aPort, aSock, aAttempts>>

NextAlloc ==
    \/ AllocAttempt
    \/ PortsChange

\* random.randint is fair: a port that can be bound, drawable at every turn,
\* is not passed over for ever
SpecAlloc == InitAlloc /\ [][NextAlloc]_vars /\ WF_vars(AllocDrawsBindable)

\* what holds of a call that has returned
AllocReturnedWell ==
    aPc = "returned" =>
        /\ aPort \in PortStart..PortEnd
        /\ aPort \notin aBusy
        /\ aSock = "closed"

\* C36: a failed bind is retried, never raised; under fair random choice and
\* with a bindable port in the range the call returns after finitely many
\* attempts; the port returned lies in [10000, 60000], was bound by the
\* allocator, and the allocator's socket is closed on return.
C36_AllocatorReturnsBoundPort ==
    /\ [](aPc # "raised")
    /\ []AllocReturnedWell
    /\ <>(aPc = "returned")

\* a call that returned the last port of the range after failed binds
C36_Witness ==
    /\ aPc = "returned"
    /\ aAttempts >= 2
    /\ aPort = PortEnd
    /\ aSock = "closed"

\* ----------------------------------------------------------- ProcessManager

\* is_running(): self.running and self.process and self.process.poll() is None
IsRunning == mRunning /\ mProc # 0 /\ mProc \in mLive

\* how the force kill of a child that ignored SIGTERM ends: the process tree
\* is killed and waited for, or psutil's kill and the fallback
\* self.process.kill() both raise (a child the user may not signal)
KillOutcomes == {"killed", "killRaises"}

\* ProcessManager(executable_path, *args) has been constructed
InitManager ==
    /\ impl = "main"
    /\ k = 1
    /\ coreInstalled = FALSE
    /\ ProbeInit
    /\ SessionIdle
    /\ FetchIdle
    /\ AllocIdle
    /\ RetryIdle
    /\ ClockIdle
    /\ ConfigIdle
    /\ JsonIdle
    /\ ExtractIdle
    /\ CodecIdle
    /\ PipeIdle
    /\ mRunning = FALSE
    /\ mProc = 0
    /\ mLive = {}
    /\ mSpawned = 0
    /\ mLast = [op |-> "init"]

\* start(): False when is_running(); else Popen, which spawns a child or
\* raises FileNotFoundError / PermissionError (False is returned)
ManagerStart ==
    /\ mSpawned < MaxSpawns
    /\ IF IsRunning
       THEN /\ mLast' = [op |-> "start", wasRunning |-> TRUE, result |-> FALSE,
                         spawned |-> FALSE, signals |-> <<>>]
            /\ UNCHANGED <<mRunning, mProc, mLive, mSpawned>>
       ELSE \E popenRaises \in BOOLEAN :
            IF popenRaises
            THEN /\ mLast' = [op |-> "start", wasRunning |-> FALSE,
                              result |-> FALSE, spawned |-> FALSE,
                              signals |-> <<>>]
                 /\ UNCHANGED <<mRunning, mProc, mLive, mSpawned>>
            ELSE /\ mSpawned' = mSpawned + 1
                 /\ mProc' = mSpawned'
                 /\ mLive' = mLive \cup {mSpawned'}
                 /\ mRunning' = TRUE
                 /\ mLast' = [op |-> "start", wasRunning |-> FALSE,
                              result |-> TRUE, spawned |-> TRUE,
                              signals |-> <<>>]
    /\ UNCHANGED <<allocVars, retryVars, clockVars, configVars, jsonVars, fetchVars, sessionVars, probeVars,
                   extractVars, codecVars, pipeVars>>

\* a child exits on its own
ManagerChildExits ==
    /\ \E c \in mLive : mLive' = mLive \ {c}
    /\ UNCHANGED <<allocVars, retryVars, clockVars, configVars, jsonVars, fetchVars, sessionVars, probeVars,
                   extractVars, codecVars, pipeVars, mRunning, mProc, mSpawned, mLast>>

\* stop(timeout): True at once when not is_running(); else SIGTERM and a poll
\* of is_running() until the timeout; then _force_kill, whose finally sets
\* self.running = False; True when it returned, False when it raised
ManagerStop ==
    /\ IF ~IsRunning
       THEN /\ mLast' = [op |-> "stop", wasRunning |-> FALSE, result |-> TRUE,
                         spawned |-> FALSE, signals |-> <<>>]
            /\ UNCHANGED <<mRunning, mLive>>
       ELSE \E exitsInTime \in BOOLEAN :
            IF exitsInTime
            THEN /\ mLive' = mLive \ {mProc}
                 /\ mLast' = [op |-> "stop", wasRunning |-> TRUE,
                              result |-> TRUE, spawned |-> FALSE,
                              signals |-> <<"SIGTERM">>]
                 /\ UNCHANGED mRunning
            ELSE \E o \in KillOutcomes :
                 /\ mLive' = IF o = "killed" THEN mLive \ {mProc} ELSE mLive
                 /\ mRunning' = FALSE
                 /\ mLast' = [op |-> "stop", wasRunning |-> TRUE,
                              result |-> (o = "killed"), spawned |-> FALSE,
                              signals |-> <<"SIGTERM", "SIGKILL">>]
    /\ UNCHANGED <<allocVars, retryVars, clockVars, configVars, jsonVars, fetchVars, sessionVars, probeVars,
                   extractVars, codecVars, pipeVars, mProc, mSpawned>>

NextManager ==
    \/ ManagerStart
    \/ ManagerChildExits
    \/ ManagerStop

SpecManager == InitManager /\ [][NextManager]_vars

\* C39: a ProcessManager never has more than one live child. start() while
\* is_running() returns False and spawns nothing; stop() on a running process
\* signals gracefully first and force-kills after the timeout, and returns
\* True only when the process no longer runs; stop() without a running
\* process returns True and signals nothing; after a successful stop()
\* is_running() is False.
C39_AtMostOneLiveChild ==
    /\ Cardinality(mLive) <= 1
    /\ mLast.op = "start" =>
        (mLast.wasRunning => ~mLast.result /\ ~mLast.spawned)
    /\ mLast.op = "stop" =>
        /\ mLast.wasRunning =>
            /\ mLast.signals # <<>>
            /\ mLast.signals[1] = "SIGTERM"
            /\ mLast.result => mProc \notin mLive
        /\ ~mLast.wasRunning => mLast.result /\ mLast.signals = <<>>
        /\ mLast.result => ~IsRunning

====
